---- MODULE Spec2Model ----
(***************************************************************************)
(* A model of the Escalier type checker's Checker (crates/escalier_infer/  *)
(* src/checker.rs) and of the substitution, union and generalization       *)
(* utilities of crates/escalier_infer/src/util.rs; of the readonly view of *)
(* object types (immutable_obj_type); of key_of (crates/crochet_infer/src/ *)
(* key_of.rs); and of patterns: their parser (crates/escalier_parser/src/  *)
(* pattern_parser.rs) and their inference (infer_pattern.rs of             *)
(* crates/escalier_infer and crates/escalier_hm).                          *)
(*                                                                         *)
(* Types are records tagged by "kind", as TypeKind is an enum.  The        *)
(* ancillary fields `provenance` and `mutable` of Type are left out: they  *)
(* take no part in the operations modelled here.                           *)
(***************************************************************************)
EXTENDS Integers, Sequences, FiniteSets, TLC

VARIABLES
    next_id,         \* Checker.next_id
    current_scope,   \* Checker.current_scope
    parent_scopes,   \* Checker.parent_scopes
    diagnostics,     \* Checker.diagnostics
    current_report,  \* Checker.current_report
    parent_reports,  \* Checker.parent_reports
    panicked,        \* an unwrap() on None, a panic!() or a todo!() aborted the run
    steps,           \* number of operations performed (bounds the run)
    last_op,         \* history: name of the operation performed last
    issued,          \* history: ids returned by fresh_var, in call order
    scope_marks,     \* history: per open push_scope, the scope state before it
    popped_mark,     \* history: the mark of the push_scope matched by the last pop_scope
    applied,         \* history: per open push_scope, substitutions applied since
    popped_applied,  \* history: substitutions applied inside the frame popped last
    report_marks,    \* history: per open push_report, current_report before it
    popped_report,   \* history: parent and frame diagnostics at the last pop_report
    call,            \* the pending call of a utility function (its arguments)
    ret              \* the value the utility function returned

vars == <<next_id, current_scope, parent_scopes, diagnostics, current_report,
          parent_reports, panicked, steps, last_op, issued, scope_marks,
          popped_mark, applied, popped_applied, report_marks, popped_report,
          call, ret>>

checker_vars == <<next_id, current_scope, parent_scopes, diagnostics,
                  current_report, parent_reports, panicked, steps, last_op,
                  issued, scope_marks, popped_mark, applied, popped_applied,
                  report_marks, popped_report>>

-----------------------------------------------------------------------------
(* Bounds *)

MaxSteps == 5

-----------------------------------------------------------------------------
(* Generic helpers *)

EmptyMap == [k \in {} |-> 0]

Put(m, k, v) == [x \in (DOMAIN m) \cup {k} |-> IF x = k THEN v ELSE m[x]]

Last(s) == s[Len(s)]

Front(s) == SubSeq(s, 1, Len(s) - 1)

Range(s) == {s[i] : i \in DOMAIN s}

RECURSIVE Concat(_)
Concat(ss) == IF ss = <<>> THEN <<>> ELSE Head(ss) \o Concat(Tail(ss))

-----------------------------------------------------------------------------
(* Types (escalier_ast::types::TypeKind) *)

TVar(id) == [kind |-> "Var", id |-> id, constraint |-> <<>>]

TVarC(id, c) == [kind |-> "Var", id |-> id, constraint |-> <<c>>]

Keyword(kw) == [kind |-> "Keyword", kw |-> kw]

Lit(base, v) == [kind |-> "Lit", base |-> base, v |-> v]

Union(ts) == [kind |-> "Union", types |-> ts]

Array(t) == [kind |-> "Array", elem |-> t]

TRef(name) == [kind |-> "Ref", name |-> name]

TFnParam(name, t) == [name |-> name, t |-> t, optional |-> FALSE]

Lam(params, r, type_params) ==
    [kind |-> "Lam", params |-> params, ret |-> r, type_params |-> type_params]

Never == Keyword("never")

Number == Keyword("number")

String == Keyword("string")

Boolean == Keyword("boolean")

-----------------------------------------------------------------------------
(* Substitutions: Subst = HashMap<i32, Type>; Substitutable::apply / ftv *)

RECURSIVE apply(_, _)
\* Replaces each Var whose id is a key of s by the type s stores for it. The
\* stored type is returned as it is: rewriting the right-hand sides is what
\* compose_subs does, entry by entry (util.rs, `t.apply(s2)`).
apply(t, s) ==
    CASE t.kind = "Var" ->
            IF t.id \in DOMAIN s
            THEN s[t.id]
            ELSE [t EXCEPT !.constraint =
                     [i \in DOMAIN t.constraint |-> apply(t.constraint[i], s)]]
      [] t.kind = "Union" ->
            [t EXCEPT !.types = [i \in DOMAIN t.types |-> apply(t.types[i], s)]]
      [] t.kind = "Array" -> [t EXCEPT !.elem = apply(t.elem, s)]
      [] t.kind = "Lam" ->
            [t EXCEPT !.params = [i \in DOMAIN t.params |->
                                     [t.params[i] EXCEPT !.t = apply(t.params[i].t, s)]],
                      !.ret = apply(t.ret, s)]
      [] OTHER -> t

RECURSIVE Dedupe(_)
\* The elements of a sequence in order of first occurrence.
Dedupe(q) ==
    IF q = <<>> THEN <<>>
    ELSE LET front == Dedupe(Front(q))
         IN  IF Last(q) \in Range(front) THEN front ELSE Append(front, Last(q))

RECURSIVE ftv_list(_)
\* Every occurrence of a type variable in t, left to right.
ftv_list(t) ==
    CASE t.kind = "Var" ->
            <<t>> \o Concat([i \in DOMAIN t.constraint |-> ftv_list(t.constraint[i])])
      [] t.kind = "Union" -> Concat([i \in DOMAIN t.types |-> ftv_list(t.types[i])])
      [] t.kind = "Array" -> ftv_list(t.elem)
      [] t.kind = "Lam" ->
            Concat([i \in DOMAIN t.params |-> ftv_list(t.params[i].t)]) \o ftv_list(t.ret)
      [] OTHER -> <<>>

\* The free type variables of t, each once, in order of first occurrence.
ftv(t) == Dedupe(ftv_list(t))

ftv_ids(t) == {v.id : v \in Range(ftv(t))}

-----------------------------------------------------------------------------
(* Scope (crate::scope::Scope) and Binding (crate::binding::Binding) *)

Binding(t, mutable) == [t |-> t, mutable |-> mutable]

Scheme(type_params, t) == [type_params |-> type_params, t |-> t]

ScopeDefault ==
    [values |-> EmptyMap, schemes |-> EmptyMap, types |-> EmptyMap, is_async |-> FALSE]

Scope_insert_binding(scope, name, b) ==
    [scope EXCEPT !.values = Put(scope.values, name, b)]

Scope_insert_value(scope, name, t) ==
    [scope EXCEPT !.values = Put(scope.values, name, Binding(t, FALSE))]

Scope_insert_type(scope, name, t) ==
    [scope EXCEPT !.types = Put(scope.types, name, t)]

Scope_insert_scheme(scope, name, scheme) ==
    [scope EXCEPT !.schemes = Put(scope.schemes, name, scheme)]

\* Applies s to the type of every binding and to the body of every scheme.
Scope_apply(scope, s) ==
    [scope EXCEPT
        !.values = [n \in DOMAIN scope.values |->
                       [scope.values[n] EXCEPT !.t = apply(scope.values[n].t, s)]],
        !.schemes = [n \in DOMAIN scope.schemes |->
                        [scope.schemes[n] EXCEPT !.t = apply(scope.schemes[n].t, s)]]]

-----------------------------------------------------------------------------
(* The order of types: BTreeSet<Type> iterates in the order of Ord for Type. *)
(* A type is ordered by its variant, then by its fields, left to right.      *)

KindRank(kind) ==
    CASE kind = "Var" -> 0
      [] kind = "Lam" -> 2
      [] kind = "Lit" -> 3
      [] kind = "Keyword" -> 4
      [] kind = "Union" -> 5
      [] kind = "Ref" -> 8
      [] kind = "Array" -> 10

KnownStrings ==
    <<"5", "6", "a", "b", "false", "true", "A", "B", "C", "D", "E", "F",
      "Num", "Bool", "Str",
      "number", "boolean", "string", "undefined", "never", "T", "c", "x", "y",
      "0", "1", "2", "length", "toFixed">>

StrRank(str) == CHOOSE i \in DOMAIN KnownStrings : KnownStrings[i] = str

RECURSIVE TypeKey(_)
\* A type as the sequence of the ranks of its variant and fields.
TypeKey(t) ==
    CASE t.kind = "Var" ->
            <<KindRank("Var"), t.id, Len(t.constraint)>>
                \o Concat([i \in DOMAIN t.constraint |-> TypeKey(t.constraint[i])])
      [] t.kind = "Lam" ->
            <<KindRank("Lam"), Len(t.params)>>
                \o Concat([i \in DOMAIN t.params |->
                              <<StrRank(t.params[i].name)>> \o TypeKey(t.params[i].t)])
                \o TypeKey(t.ret)
                \o <<Len(t.type_params)>>
                \o [i \in DOMAIN t.type_params |-> StrRank(t.type_params[i].name)]
      [] t.kind = "Lit" -> <<KindRank("Lit"), StrRank(t.base), StrRank(t.v)>>
      [] t.kind = "Keyword" -> <<KindRank("Keyword"), StrRank(t.kw)>>
      [] t.kind = "Union" ->
            <<KindRank("Union"), Len(t.types)>>
                \o Concat([i \in DOMAIN t.types |-> TypeKey(t.types[i])])
      [] t.kind = "Ref" -> <<KindRank("Ref"), StrRank(t.name)>>
      [] t.kind = "Array" -> <<KindRank("Array")>> \o TypeKey(t.elem)

\* Lexicographic order of two sequences of numbers.
KeyLess(a, b) ==
    \E i \in 1..Len(b) :
        /\ \A j \in 1..(i - 1) : j <= Len(a) /\ a[j] = b[j]
        /\ (i > Len(a) \/ a[i] < b[i])

TypeLess(a, b) == KeyLess(TypeKey(a), TypeKey(b))

RECURSIVE SortTypes(_)
\* The members of a set of types in ascending order (BTreeSet::iter).
SortTypes(S) ==
    IF S = {} THEN <<>>
    ELSE LET least == CHOOSE x \in S : \A y \in S \ {x} : TypeLess(x, y)
         IN  <<least>> \o SortTypes(S \ {least})

-----------------------------------------------------------------------------
(* Unions (util.rs: flatten_types, union_types, union_many_types) *)

\* Faulty variant: only the outermost union is opened.
flatten_types_shallow(t) == IF t.kind = "Union" THEN t.types ELSE <<t>>

RECURSIVE flatten_types(_)
flatten_types(t) ==
    IF t.kind = "Union"
    THEN Concat([i \in DOMAIN t.types |-> flatten_types(t.types[i])])
    ELSE <<t>>

\* The primitive keyword a literal belongs to.
lit_keyword(lit) ==
    CASE lit.base = "Num" -> Number
      [] lit.base = "Bool" -> Boolean
      [] lit.base = "Str" -> String

\* Faulty variant: literals are kept beside their primitive.
keeps_lit_always(lit, keyword_types) == TRUE

\* The filter of lit_types: a literal stays unless its primitive is a member.
keeps_lit(lit, keyword_types) == lit_keyword(lit) \notin keyword_types

union_many_types(ts) ==
    LET types == Concat([i \in DOMAIN ts |-> flatten_types(ts[i])])
        types_set == Range(types)
        keyword_types == {t \in types_set : t.kind = "Keyword"}
        lit_types == {t \in types_set : t.kind = "Lit" /\ keeps_lit(t, keyword_types)}
        other_types == {t \in types_set : t.kind \notin {"Lit", "Keyword"}}
        chained == SortTypes(keyword_types) \o SortTypes(lit_types)
                       \o SortTypes(other_types)
        NotNever(t) == ~(t.kind = "Keyword" /\ t.kw = "never")
        kept == SelectSeq(chained, NotNever)
    IN  CASE Len(kept) = 0 -> Never
          [] Len(kept) = 1 -> kept[1]
          [] OTHER -> Union(kept)

union_types(t1, t2) == union_many_types(<<t1, t2>>)

-----------------------------------------------------------------------------
(* Inputs of the Checker operations *)

Names == {"x"}

InsertTypes == {TVar(1), Number}

AliasTypes == {Number}

ApplySubsts == {1 :> Number}

ScopeKinds == {"Inherit", "Async", "Sync"}

Constraints == {<<>>, <<Number>>}

Diagnostics == {"d1", "d2"}

-----------------------------------------------------------------------------
(* Checker (checker.rs) *)

\* Every operation is one step of a run that has not aborted.
Step(op) ==
    /\ ~panicked
    /\ steps < MaxSteps
    /\ steps' = steps + 1
    /\ last_op' = op

scope_history == <<scope_marks, popped_mark, applied, popped_applied>>

report_history == <<report_marks, popped_report>>

report_state == <<diagnostics, current_report, parent_reports>>

pure_vars == <<call, ret>>

\* Checker::default
Checker_default ==
    /\ next_id = 1
    /\ current_scope = ScopeDefault
    /\ parent_scopes = <<>>
    /\ diagnostics = <<>>
    /\ current_report = <<>>
    /\ parent_reports = <<>>
    /\ panicked = FALSE
    /\ steps = 0
    /\ last_op = "default"
    /\ issued = <<>>
    /\ scope_marks = <<>>
    /\ popped_mark = <<>>
    /\ applied = <<>>
    /\ popped_applied = {}
    /\ report_marks = <<>>
    /\ popped_report = <<>>

Init ==
    /\ Checker_default
    /\ call = [fn |-> "none"]
    /\ ret = <<>>

insert_binding(name, b) ==
    /\ Step("insert_binding")
    /\ current_scope' = Scope_insert_binding(current_scope, name, b)
    /\ UNCHANGED <<next_id, parent_scopes, panicked, issued>>
    /\ UNCHANGED <<report_state, scope_history, report_history, pure_vars>>

insert_value(name, t) ==
    /\ Step("insert_value")
    /\ current_scope' = Scope_insert_value(current_scope, name, t)
    /\ UNCHANGED <<next_id, parent_scopes, panicked, issued>>
    /\ UNCHANGED <<report_state, scope_history, report_history, pure_vars>>

insert_type(name, t) ==
    /\ Step("insert_type")
    /\ current_scope' = Scope_insert_type(current_scope, name, t)
    /\ UNCHANGED <<next_id, parent_scopes, panicked, issued>>
    /\ UNCHANGED <<report_state, scope_history, report_history, pure_vars>>

insert_scheme(name, scheme) ==
    /\ Step("insert_scheme")
    /\ current_scope' = Scope_insert_scheme(current_scope, name, scheme)
    /\ UNCHANGED <<next_id, parent_scopes, panicked, issued>>
    /\ UNCHANGED <<report_state, scope_history, report_history, pure_vars>>

\* Context::apply for Checker: only current_scope is touched.
Checker_apply(s) ==
    /\ Step("apply")
    /\ current_scope' = Scope_apply(current_scope, s)
    /\ applied' = [i \in DOMAIN applied |->
                      IF i = Len(applied) THEN applied[i] \cup {s} ELSE applied[i]]
    /\ UNCHANGED <<next_id, parent_scopes, panicked, issued>>
    /\ UNCHANGED <<report_state, scope_marks, popped_mark, popped_applied,
                   report_history, pure_vars>>

\* The scope push_scope leaves in current_scope: a clone with is_async set by kind.
pushed_scope(scope, scope_kind) ==
    CASE scope_kind = "Inherit" -> scope
      [] scope_kind = "Async" -> [scope EXCEPT !.is_async = TRUE]
      [] scope_kind = "Sync" -> [scope EXCEPT !.is_async = FALSE]

push_scope(scope_kind) ==
    /\ Step("push_scope")
    /\ parent_scopes' = Append(parent_scopes, current_scope)
    /\ current_scope' = pushed_scope(current_scope, scope_kind)
    /\ scope_marks' = Append(scope_marks,
                             [scope |-> current_scope, depth |-> Len(parent_scopes),
                              pops |-> 0])
    /\ applied' = Append(applied, {})
    /\ UNCHANGED <<next_id, panicked, issued, popped_mark, popped_applied>>
    /\ UNCHANGED <<report_state, report_history, pure_vars>>

\* Faulty variant: the inner scope stays the current one.
restored_scope_kept(parents, current) == current

\* The scope pop_scope leaves in current_scope: the one pushed last.
restored_scope(parents, current) == Last(parents)

\* Faulty variant: the frame popped stays on the stack.
popped_parents_kept(parents) == parents

\* The stack after Vec::pop on a stack that is not empty.
popped_parents(parents) == Front(parents)

\* parent_scopes.pop().unwrap(): aborts when no scope was pushed.
pop_scope ==
    /\ Step("pop_scope")
    /\ IF parent_scopes = <<>>
       THEN /\ panicked' = TRUE
            /\ UNCHANGED <<current_scope, parent_scopes, scope_history>>
       ELSE /\ current_scope' = restored_scope(parent_scopes, current_scope)
            /\ parent_scopes' = popped_parents(parent_scopes)
            /\ popped_mark' = <<[before |-> Last(scope_marks).scope,
                                 depth |-> Last(scope_marks).depth,
                                 pops |-> Last(scope_marks).pops,
                                 inner |-> current_scope]>>
            /\ scope_marks' = [i \in DOMAIN Front(scope_marks) |->
                                  IF i = Len(scope_marks) - 1
                                  THEN [scope_marks[i] EXCEPT !.pops = @ + 1]
                                  ELSE scope_marks[i]]
            /\ popped_applied' = Last(applied)
            /\ applied' = [i \in DOMAIN Front(applied) |->
                              IF i = Len(applied) - 1
                              THEN applied[i] \cup Last(applied)
                              ELSE applied[i]]
            /\ UNCHANGED panicked
    /\ UNCHANGED <<next_id, issued>>
    /\ UNCHANGED <<report_state, report_history, pure_vars>>

push_report ==
    /\ Step("push_report")
    /\ parent_reports' = Append(parent_reports, current_report)
    /\ current_report' = <<>>
    /\ report_marks' = Append(report_marks, current_report)
    /\ UNCHANGED <<next_id, current_scope, parent_scopes, diagnostics, panicked, issued>>
    /\ UNCHANGED <<scope_history, popped_report, pure_vars>>

\* Faulty variant: the popped frame's diagnostics are dropped.
popped_report_of_dropped(parent, report) == parent

\* The report pop_report leaves in current_report, given the parent frame popped.
popped_report_of(parent, report) == parent \o report

\* parent_reports.pop().unwrap(): aborts when no report was pushed.
pop_report ==
    /\ Step("pop_report")
    /\ IF parent_reports = <<>>
       THEN /\ panicked' = TRUE
            /\ UNCHANGED <<current_report, parent_reports, report_history>>
       ELSE /\ current_report' = popped_report_of(Last(parent_reports), current_report)
            /\ parent_reports' = popped_parents(parent_reports)
            /\ popped_report' = <<[parent |-> Last(report_marks), frame |-> current_report]>>
            /\ report_marks' = Front(report_marks)
            /\ UNCHANGED panicked
    /\ UNCHANGED <<next_id, current_scope, parent_scopes, diagnostics, issued>>
    /\ UNCHANGED <<scope_history, pure_vars>>

\* A diagnostic is appended to the active report frame.
report_diagnostic(d) ==
    /\ Step("report_diagnostic")
    /\ current_report' = Append(current_report, d)
    /\ UNCHANGED <<next_id, current_scope, parent_scopes, diagnostics, parent_reports,
                   panicked, issued>>
    /\ UNCHANGED <<scope_history, report_history, pure_vars>>

\* Faulty variant: the counter is not advanced.
fresh_next_id_stuck(id) == id

\* The value fresh_var stores in next_id.
fresh_next_id(id) == id + 1

fresh_var(constraint) ==
    /\ Step("fresh_var")
    /\ next_id' = fresh_next_id(next_id)
    /\ issued' = Append(issued, next_id)
    /\ UNCHANGED <<current_scope, parent_scopes, panicked>>
    /\ UNCHANGED <<report_state, scope_history, report_history, pure_vars>>

Next ==
    \/ \E c \in Constraints : fresh_var(c)
    \/ \E k \in ScopeKinds : push_scope(k)
    \/ pop_scope
    \/ push_report
    \/ pop_report
    \/ \E d \in Diagnostics : report_diagnostic(d)
    \/ \E n \in Names, t \in InsertTypes, m \in BOOLEAN : insert_binding(n, Binding(t, m))
    \/ \E n \in Names, t \in InsertTypes : insert_value(n, t)
    \/ \E n \in Names, t \in AliasTypes : insert_type(n, t)
    \/ \E n \in Names, t \in AliasTypes : insert_scheme(n, Scheme(<<>>, t))
    \/ \E s \in ApplySubsts : Checker_apply(s)

Spec == Init /\ [][Next]_vars

-----------------------------------------------------------------------------
(* Properties of the Checker *)

NoRepeat(q) == \A i, j \in DOMAIN q : i # j => q[i] # q[j]

\* C1: every fresh_var call returns an id that no earlier fresh_var call of the
\* same Checker returned, and no operation (pop_scope included) ever lowers
\* next_id.
C1_FreshIdsUnique ==
    /\ [](NoRepeat(issued) /\ \A i \in DOMAIN issued : issued[i] < next_id)
    /\ [][next_id' >= next_id]_vars

\* Two ids were issued, the second after a scope was pushed and popped.
C1_Witness ==
    /\ Len(issued) >= 2
    /\ last_op = "fresh_var"
    /\ popped_mark # <<>>

\* C2: pop_scope restores current_scope (bindings, schemes, types, is_async) and
\* the depth of parent_scopes to what they were just before the matching
\* push_scope, whatever was inserted or pushed and popped in between.
C2_PopScopeRestores ==
    (last_op = "pop_scope" /\ ~panicked) =>
        /\ current_scope = popped_mark[1].before
        /\ Len(parent_scopes) = popped_mark[1].depth

\* A scope was popped whose bindings and is_async flag differed from the
\* enclosing scope's, after a nested scope had been pushed and popped in it.
C2_Witness ==
    /\ last_op = "pop_scope"
    /\ ~panicked
    /\ popped_mark[1].pops >= 1
    /\ popped_mark[1].inner.values # current_scope.values
    /\ popped_mark[1].inner.is_async # current_scope.is_async

\* C3: pop_report leaves in current_report the parent frame's diagnostics as
\* they were at the matching push_report, followed in order by the diagnostics
\* of the popped frame.
C3_PopReportMerges ==
    (last_op = "pop_report" /\ ~panicked) =>
        current_report = popped_report[1].parent \o popped_report[1].frame

\* A frame holding a diagnostic was popped into a parent holding one.
C3_Witness ==
    /\ last_op = "pop_report"
    /\ ~panicked
    /\ popped_report[1].parent # <<>>
    /\ popped_report[1].frame # <<>>
    /\ popped_report[1].parent # popped_report[1].frame

\* C4: after apply(s) in an inner scope and the pop_scope of that scope, the
\* bindings of the enclosing scope have s applied (applying s changes nothing
\* any more).
C4_ApplyReachesEnclosing ==
    (last_op = "pop_scope" /\ ~panicked) =>
        \A s \in popped_applied :
            Scope_apply(current_scope, s).values = current_scope.values

-----------------------------------------------------------------------------
(* Calls of union_many_types and union_types on bounded inputs *)

MaxUnionArgs == 2

UnionAtoms ==
    {Never, Number, String, Boolean, Lit("Num", "5"), Lit("Str", "a"),
     Lit("Bool", "true"), TVar(1)}

NestAtoms == {Never, Number, Lit("Num", "5"), Lit("Str", "a")}

FlatUnions == {Union(<<a, b>>) : a, b \in NestAtoms}

DeepUnions ==
    {Union(<<u, a>>) : u \in {Union(<<Number, Lit("Num", "5")>>),
                              Union(<<Never, Lit("Str", "a")>>)},
                       a \in NestAtoms}
        \cup {Union(<<Never, Union(<<Union(<<Never, Never>>), Never>>)>>),
              Union(<<Lit("Num", "5"), Union(<<Union(<<Number, TVar(1)>>), Never>>)>>)}

UnionArgs == UnionAtoms \cup FlatUnions \cup DeepUnions

SeqsUpTo(S, n) == UNION {[1..k -> S] : k \in 0..n}

InitUnion ==
    /\ Checker_default
    /\ \/ \E ts \in SeqsUpTo(UnionArgs, MaxUnionArgs) :
              call = [fn |-> "union_many_types", ts |-> ts]
       \/ \E t1, t2 \in UnionArgs :
              call = [fn |-> "union_types", ts |-> <<t1, t2>>]
    /\ ret = <<>>

union_many_types_call ==
    /\ call.fn = "union_many_types"
    /\ ret = <<>>
    /\ ret' = <<union_many_types(call.ts)>>
    /\ UNCHANGED <<checker_vars, call>>

union_types_call ==
    /\ call.fn = "union_types"
    /\ ret = <<>>
    /\ ret' = <<union_types(call.ts[1], call.ts[2])>>
    /\ UNCHANGED <<checker_vars, call>>

NextUnion == union_many_types_call \/ union_types_call

SpecUnion == InitUnion /\ [][NextUnion]_vars

RECURSIVE UnionLeaves(_)
\* The non-union types found in t at any depth of nested unions.
UnionLeaves(t) ==
    IF t.kind = "Union"
    THEN UNION {UnionLeaves(t.types[i]) : i \in DOMAIN t.types}
    ELSE {t}

CallLeaves == UNION {UnionLeaves(call.ts[i]) : i \in DOMAIN call.ts}

\* The members of a result: those of a union, or the bare type itself.
ResultMembers(t) == IF t.kind = "Union" THEN Range(t.types) ELSE {t}

Primitives == {Number, String, Boolean}

LitPrimitive(lit) ==
    IF lit.base = "Num" THEN Number ELSE IF lit.base = "Str" THEN String ELSE Boolean

\* C7: when the flattened members include number, string or boolean the result
\* holds no literal of that primitive, and every literal whose primitive is
\* not a member is kept.
C7_LiteralsSubsumed ==
    ret # <<>> =>
        /\ \A m \in ResultMembers(ret[1]) :
               m.kind = "Lit" => LitPrimitive(m) \notin CallLeaves
        /\ \A l \in CallLeaves :
               (l.kind = "Lit" /\ LitPrimitive(l) \notin CallLeaves)
                   => l \in ResultMembers(ret[1])

\* number came with a number literal (dropped) and a string literal (kept).
C7_Witness ==
    /\ ret # <<>>
    /\ {Number, Lit("Num", "5"), Lit("Str", "a")} \subseteq CallLeaves
    /\ Lit("Str", "a") \in ResultMembers(ret[1])
    /\ Lit("Num", "5") \notin ResultMembers(ret[1])

\* The members that remain of a set of leaves: all but never and the literals
\* whose primitive is among the leaves.
RemainingOf(leaves) ==
    {l \in leaves :
        /\ l # Never
        /\ ~(l.kind = "Lit" /\ LitPrimitive(l) \in leaves)}

Remaining == RemainingOf(CallLeaves)

\* C8: a union result has at least two members, none never, none a union, no
\* two equal; the result is never when no member remains and the bare member
\* when exactly one remains.
C8_UnionCanonical ==
    ret # <<>> =>
        /\ ret[1].kind = "Union" =>
               /\ Len(ret[1].types) >= 2
               /\ NoRepeat(ret[1].types)
               /\ \A m \in Range(ret[1].types) : m # Never /\ m.kind # "Union"
        /\ Remaining = {} => ret[1] = Never
        /\ Cardinality(Remaining) = 1 => ret[1] \in Remaining
        /\ Cardinality(Remaining) >= 2 =>
               ret[1].kind = "Union" /\ Range(ret[1].types) = Remaining

\* A union nested two levels deep, with never and a repeated member, was
\* simplified to a union.
C8_Witness ==
    /\ ret # <<>>
    /\ ret[1].kind = "Union"
    /\ \E i \in DOMAIN call.ts :
           /\ call.ts[i].kind = "Union"
           /\ \E j \in DOMAIN call.ts[i].types :
                  /\ call.ts[i].types[j].kind = "Union"
                  /\ \E k \in DOMAIN call.ts[i].types[j].types :
                         call.ts[i].types[j].types[k].kind = "Union"
    /\ Never \in CallLeaves
    /\ \E i, j \in DOMAIN call.ts :
           i # j /\ UnionLeaves(call.ts[i]) \cap UnionLeaves(call.ts[j]) # {}

-----------------------------------------------------------------------------
(* Composition of substitutions (util.rs: compose_subs,                     *)
(* compose_subs_with_context)                                                *)

\* HashMap::extend: the entries of `more` are inserted, replacing equal keys.
extend(result, more) ==
    [k \in (DOMAIN result) \cup (DOMAIN more) |->
        IF k \in DOMAIN more THEN more[k] ELSE result[k]]

compose_subs(s2, s1) ==
    LET result == [tv \in DOMAIN s1 |-> apply(s1[tv], s2)]
    IN  extend(result, s2)

\* Faulty variant: the entry of s1 replaces the colliding one.
merge_entry_overwrite(t, t1) == t

\* The entry stored for an id that result already holds.
merge_entry(t, t1) == union_types(t, t1)

compose_subs_with_context(s1, s2) ==
    LET result == [tv \in DOMAIN s2 |-> apply(s2[tv], s1)]
    IN  [tv \in (DOMAIN s1) \cup (DOMAIN s2) |->
            IF tv \in DOMAIN s1
            THEN IF tv \in DOMAIN result
                 THEN merge_entry(s1[tv], result[tv])
                 ELSE s1[tv]
            ELSE result[tv]]

RECURSIVE fold_compose(_, _)
\* subs.iter().fold(accum, |accum, next| compose_subs(&accum, next))
fold_compose(accum, subs) ==
    IF subs = <<>> THEN accum
    ELSE fold_compose(compose_subs(accum, Head(subs)), Tail(subs))

compose_many_subs(subs) == fold_compose(EmptyMap, subs)

SubstIds == {1, 2, 3}

SubstRange == {Number, Lit("Num", "5"), TVar(1), TVar(2)}

Substs == UNION {[D -> SubstRange] : D \in SUBSET SubstIds}

SubstTypes ==
    {TVar(1), TVar(2), Array(TVar(3)),
     Lam(<<TFnParam("x", TVar(1))>>, Union(<<TVar(2), Number>>), <<>>)}

MaxSubs == 3

\* The substitutions handed to compose_many_subs.
ManySubsts ==
    {EmptyMap, 1 :> TVar(2), 2 :> Number, 1 :> Number, 2 :> TVar(3),
     (1 :> Lit("Num", "5")) @@ (3 :> Array(TVar(2)))}

InitSubst ==
    /\ Checker_default
    /\ \/ \E s2, s1 \in Substs, t \in SubstTypes :
              call = [fn |-> "compose_subs", s2 |-> s2, s1 |-> s1, t |-> t]
       \/ \E s1, s2 \in Substs :
              call = [fn |-> "compose_subs_with_context", s1 |-> s1, s2 |-> s2]
       \/ \E subs \in SeqsUpTo(ManySubsts, MaxSubs), t \in SubstTypes :
              call = [fn |-> "compose_many_subs", subs |-> subs, t |-> t]
    /\ ret = <<>>

compose_subs_call ==
    /\ call.fn = "compose_subs"
    /\ ret = <<>>
    /\ ret' = <<compose_subs(call.s2, call.s1)>>
    /\ UNCHANGED <<checker_vars, call>>

compose_subs_with_context_call ==
    /\ call.fn = "compose_subs_with_context"
    /\ ret = <<>>
    /\ ret' = <<compose_subs_with_context(call.s1, call.s2)>>
    /\ UNCHANGED <<checker_vars, call>>

compose_many_subs_call ==
    /\ call.fn = "compose_many_subs"
    /\ ret = <<>>
    /\ ret' = <<compose_many_subs(call.subs)>>
    /\ UNCHANGED <<checker_vars, call>>

NextSubst ==
    compose_subs_call \/ compose_subs_with_context_call \/ compose_many_subs_call

SpecSubst == InitSubst /\ [][NextSubst]_vars

\* C5: applying compose_subs(s2, s1) to a type gives what applying s1 and then
\* s2 gives, also when s1 and s2 bind the same id.
C5_ComposeIsSequential ==
    (ret # <<>> /\ call.fn = "compose_subs") =>
        apply(call.t, ret[1]) = apply(apply(call.t, call.s1), call.s2)

\* The same, for substitutions that bind no common id.
C5_DisjointComposeIsSequential ==
    (ret # <<>> /\ call.fn = "compose_subs"
        /\ (DOMAIN call.s1) \cap (DOMAIN call.s2) = {}) =>
        apply(call.t, ret[1]) = apply(apply(call.t, call.s1), call.s2)

\* C6: compose_subs_with_context(s1, s2) binds the ids of both; an id of s1
\* alone keeps s1's type, an id of s2 alone gets s2's type with s1 applied, an
\* id of both gets the simplified union of s1's type and s2's type with s1
\* applied.
C6_ContextComposeMerges ==
    (ret # <<>> /\ call.fn = "compose_subs_with_context") =>
        LET s1 == call.s1
            s2 == call.s2
            r == ret[1]
        IN  /\ DOMAIN r = (DOMAIN s1) \cup (DOMAIN s2)
            /\ \A id \in (DOMAIN s1) \ (DOMAIN s2) : r[id] = s1[id]
            /\ \A id \in (DOMAIN s2) \ (DOMAIN s1) : r[id] = apply(s2[id], s1)
            /\ \A id \in (DOMAIN s1) \cap (DOMAIN s2) :
                   LET leaves == UnionLeaves(s1[id]) \cup UnionLeaves(apply(s2[id], s1))
                   IN  /\ ResultMembers(r[id]) =
                              IF RemainingOf(leaves) = {} THEN {Never}
                              ELSE RemainingOf(leaves)
                       /\ r[id].kind = "Union" =>
                              Len(r[id].types) = Cardinality(RemainingOf(leaves))

\* One id is bound by s1 alone, one by s2 alone to a variable s1 binds, and one
\* by both to different types.
C6_Witness ==
    /\ ret # <<>>
    /\ call.fn = "compose_subs_with_context"
    /\ (DOMAIN call.s1) \ (DOMAIN call.s2) # {}
    /\ \E id \in (DOMAIN call.s2) \ (DOMAIN call.s1) :
           apply(call.s2[id], call.s1) # call.s2[id]
    /\ \E id \in (DOMAIN call.s1) \cap (DOMAIN call.s2) :
           ret[1][id].kind = "Union"

-----------------------------------------------------------------------------
(* Generalization (util.rs: get_mapping, close_over, normalize) *)

TypeParam(name, constraint) ==
    [name |-> name, constraint |-> constraint, default |-> <<>>]

Letters == <<"A", "B", "C", "D", "E", "F">>

\* Faulty variant: the character code is not advanced, every name is "A".
char_name_first(char_code) == Letters[1]

\* char::from_u32(char_code).unwrap().to_string(), for the codes of Letters.
char_name(char_code) == Letters[char_code - 64]

\* get_mapping: the i-th free variable of t (counted from 0) is mapped to the
\* variable with id i and the same constraint.
get_mapping(t) ==
    LET tvs == ftv(t)
    IN  [id \in {tvs[i].id : i \in DOMAIN tvs} |->
            LET index == CHOOSE i \in DOMAIN tvs :
                             /\ tvs[i].id = id
                             /\ \A j \in DOMAIN tvs : tvs[j].id = id => j <= i
            IN  [kind |-> "Var", id |-> index - 1, constraint |-> tvs[index].constraint]]

RECURSIVE norm_type(_, _)
norm_type(t, mapping) ==
    CASE t.kind = "Var" ->
            IF t.id \in DOMAIN mapping
            THEN mapping[t.id]
            ELSE [t EXCEPT !.constraint =
                     [i \in DOMAIN t.constraint |-> norm_type(t.constraint[i], mapping)]]
      [] t.kind = "Lam" ->
            [t EXCEPT !.params = [i \in DOMAIN t.params |->
                                     [t.params[i] EXCEPT
                                         !.t = norm_type(t.params[i].t, mapping)]],
                      !.ret = norm_type(t.ret, mapping)]
      [] t.kind = "Union" ->
            [t EXCEPT !.types = [i \in DOMAIN t.types |-> norm_type(t.types[i], mapping)]]
      [] t.kind = "Array" -> [t EXCEPT !.elem = norm_type(t.elem, mapping)]
      [] OTHER -> t

\* The context argument is not consulted.
normalize(t, ctx) == norm_type(t, get_mapping(t))

\* Faulty variant: only the first free variable gets a type parameter reference.
generalize_sub_first(tvs) == tvs[1].id :> TRef(char_name(65))

\* The substitution close_over builds: the i-th free variable is mapped to a
\* reference to the i-th capital letter (a later insert replaces an earlier
\* one for the same id).
generalize_sub(tvs) ==
    [id \in {tvs[i].id : i \in DOMAIN tvs} |->
        LET index == CHOOSE i \in DOMAIN tvs :
                         /\ tvs[i].id = id
                         /\ \A j \in DOMAIN tvs : tvs[j].id = id => j <= i
        IN  TRef(char_name(65 + index - 1))]

\* The free variables of the context's bindings.
ctx_ftv_ids(ctx) == UNION {ftv_ids(ctx.values[n].t) : n \in DOMAIN ctx.values}

\* Faulty variant: variables free in a binding of the context are not generalized.
generalized_vars_not_in_ctx(tvs, ctx) ==
    LET NotInCtx(tv) == tv.id \notin ctx_ftv_ids(ctx)
    IN  SelectSeq(tvs, NotInCtx)

\* The variables close_over turns into type parameters: `for tv in tvs`.
generalized_vars(tvs, ctx) == tvs

\* Whether close_over reaches its panic!: free variables in a non-lambda.
close_over_panics(s, t, ctx) ==
    LET t_applied == apply(t, s)
    IN  ftv(t_applied) # <<>> /\ t_applied.kind # "Lam"

close_over(s, t, ctx) ==
    LET t_applied == apply(t, s)
        tvs == ftv(t_applied)
        closed ==
            IF tvs = <<>>
            THEN t_applied
            ELSE LET gen == generalized_vars(tvs, ctx)
                     type_params == [i \in DOMAIN gen |->
                                        TypeParam(char_name(65 + i - 1), gen[i].constraint)]
                     sub == IF gen = <<>> THEN EmptyMap ELSE generalize_sub(gen)
                     lam == Lam(t_applied.params, t_applied.ret, type_params)
                 IN  apply(lam, sub)
    IN  normalize(closed, ctx)

MaxParams == 2

ParamNames == <<"a", "b", "c">>

ParamTypes == {TVar(1), TVar(2), Number, Array(TVar(1))}

RetTypes == {TVar(1), TVar(3), Number, TRef("T")}

Lams ==
    {Lam([i \in DOMAIN f |-> TFnParam(ParamNames[i], f[i])], r, <<>>) :
        f \in SeqsUpTo(ParamTypes, MaxParams), r \in RetTypes}

CloseTypes == Lams \cup {Number, TVar(1), Array(TVar(2))}

CloseSubsts == {EmptyMap, 1 :> Number, 1 :> TVar(3), 2 :> Array(TVar(1))}

Ctxs ==
    {ScopeDefault,
     Scope_insert_binding(ScopeDefault, "x", Binding(TVar(1), FALSE)),
     Scope_insert_binding(ScopeDefault, "x", Binding(Array(TVar(3)), TRUE))}

InitClose ==
    /\ Checker_default
    /\ \E s \in CloseSubsts, t \in CloseTypes, ctx \in Ctxs :
           call = [fn |-> "close_over", s |-> s, t |-> t, ctx |-> ctx]
    /\ ret = <<>>

unpanicked_checker_vars ==
    <<next_id, current_scope, parent_scopes, diagnostics, current_report,
      parent_reports, steps, last_op, issued, scope_marks, popped_mark, applied,
      popped_applied, report_marks, popped_report>>

close_over_call ==
    /\ call.fn = "close_over"
    /\ ret = <<>>
    /\ ~panicked
    /\ IF close_over_panics(call.s, call.t, call.ctx)
       THEN panicked' = TRUE /\ UNCHANGED ret
       ELSE ret' = <<close_over(call.s, call.t, call.ctx)>> /\ UNCHANGED panicked
    /\ UNCHANGED <<unpanicked_checker_vars, call>>

NextClose == close_over_call

SpecClose == InitClose /\ [][NextClose]_vars

RECURSIVE RefNames(_)
\* The names of the references occurring in t.
RefNames(t) ==
    CASE t.kind = "Ref" -> {t.name}
      [] t.kind = "Lam" ->
            UNION {RefNames(t.params[i].t) : i \in DOMAIN t.params} \cup RefNames(t.ret)
      [] t.kind = "Union" -> UNION {RefNames(t.types[i]) : i \in DOMAIN t.types}
      [] t.kind = "Array" -> RefNames(t.elem)
      [] OTHER -> {}

TypeParamNames(t) == {t.type_params[i].name : i \in DOMAIN t.type_params}

CloseApplied == apply(call.t, call.s)

ClosedLam == ret # <<>> /\ call.fn = "close_over" /\ call.t.kind = "Lam"

\* C9: the type close_over returns for a lambda has no free type variable;
\* the references that took the place of the variables free in t.apply(s)
\* name type parameters of the result.
C9_CloseOverLeavesNoFreeVar ==
    ClosedLam =>
        /\ ftv(ret[1]) = <<>>
        /\ RefNames(ret[1]) \ RefNames(CloseApplied) \subseteq TypeParamNames(ret[1])
        /\ ftv(CloseApplied) # <<>> =>
               RefNames(ret[1]) \ RefNames(CloseApplied) # {}

\* A lambda with two free variables left after the substitution was closed.
C9_Witness ==
    /\ ClosedLam
    /\ Cardinality(ftv_ids(CloseApplied)) >= 2
    /\ call.s # EmptyMap
    /\ Len(ret[1].type_params) >= 2

SharedWithCtx == ftv_ids(CloseApplied) \cap ctx_ftv_ids(call.ctx)

\* C10 (as claimed): only the variables free in the type and not free in the
\* context are quantified; a variable that is also free in a binding of the
\* context stays a variable.
C10_CtxVarsNotGeneralized ==
    ClosedLam =>
        /\ Len(ret[1].type_params) =
               Cardinality(ftv_ids(CloseApplied) \ ctx_ftv_ids(call.ctx))
        /\ Cardinality(ftv_ids(ret[1])) = Cardinality(SharedWithCtx)

\* C10 (amended): every variable free in t.apply(s) is quantified, whether or
\* not it is free in a binding of the context: the result has one type
\* parameter per free variable and no variable is left.
C10_AllFreeVarsGeneralized ==
    ClosedLam =>
        /\ Len(ret[1].type_params) = Cardinality(ftv_ids(CloseApplied))
        /\ SharedWithCtx # {} => ftv(ret[1]) = <<>>

\* A lambda was closed one of whose free variables is free in a binding of
\* the context, another not.
C10_Witness ==
    /\ ClosedLam
    /\ SharedWithCtx # {}
    /\ ftv_ids(CloseApplied) \ ctx_ftv_ids(call.ctx) # {}
    /\ Len(ret[1].type_params) = 2

-----------------------------------------------------------------------------
(* Type parameter naming (util.rs: close_over, test_close_over) *)

\* The position of the variable id in the sequence of free variables tvs.
VarIndex(id, tvs) == CHOOSE i \in DOMAIN tvs : tvs[i].id = id

RECURSIVE NameVars(_, _)
\* t with each occurrence of the i-th variable of tvs written as a reference
\* to the i-th capital letter.
NameVars(t, tvs) ==
    CASE t.kind = "Var" -> TRef(Letters[VarIndex(t.id, tvs)])
      [] t.kind = "Array" -> Array(NameVars(t.elem, tvs))
      [] t.kind = "Union" ->
            Union([i \in DOMAIN t.types |-> NameVars(t.types[i], tvs)])
      [] OTHER -> t

\* C11: close_over on a lambda with n distinct free type variables gives
\* exactly n type parameters named "A", "B", ... in free-variable order, and
\* every occurrence of the i-th variable in the parameters and the return type
\* is a reference to the i-th parameter.
C11_TypeParamsNamedInOrder ==
    ClosedLam =>
        LET tvs == ftv(CloseApplied)
            n == Cardinality(ftv_ids(CloseApplied))
        IN  /\ Len(ret[1].type_params) = n
            /\ \A i \in 1..n : ret[1].type_params[i].name = Letters[i]
            /\ \A i, j \in 1..n :
                   i # j => ret[1].type_params[i].name # ret[1].type_params[j].name
            /\ Len(ret[1].params) = Len(CloseApplied.params)
            /\ \A i \in DOMAIN CloseApplied.params :
                   /\ ret[1].params[i].name = CloseApplied.params[i].name
                   /\ ret[1].params[i].t = NameVars(CloseApplied.params[i].t, tvs)
            /\ ret[1].ret = NameVars(CloseApplied.ret, tvs)

\* test_close_over: (a: t1, b: t2) => t1 closed under the empty substitution
\* is <A, B>(a: A, b: B) => A.
C11_Witness ==
    /\ ClosedLam
    /\ call.s = EmptyMap
    /\ call.t = Lam(<<TFnParam("a", TVar(1)), TFnParam("b", TVar(2))>>, TVar(1), <<>>)
    /\ ret[1] = Lam(<<TFnParam("a", TRef("A")), TFnParam("b", TRef("B"))>>, TRef("A"),
                    <<TypeParam("A", <<>>), TypeParam("B", <<>>)>>)

-----------------------------------------------------------------------------
(* Object types and their readonly view (util.rs: immutable_obj_type) *)

\* TObjElem: the variants immutable_obj_type distinguishes.
\* TCallable / TMethod: parameters, return type and type parameters.
TCallable(variant, params, r, type_params) ==
    [elem |-> variant, params |-> params, ret |-> r, type_params |-> type_params]

TMethodOf(name, is_mutating, params, r, type_params) ==
    [elem |-> "Method", name |-> name, is_mutating |-> is_mutating,
     params |-> params, ret |-> r, type_params |-> type_params]

\* Signatures without parameters and type parameters.
TCall(r) == TCallable("Call", <<>>, r, <<>>)

TConstructor(r) == TCallable("Constructor", <<>>, r, <<>>)

TMethod(name, is_mutating, r) == TMethodOf(name, is_mutating, <<>>, r, <<>>)

TGetter(name, r) == [elem |-> "Getter", name |-> name, ret |-> r]

TSetter(name, t) == [elem |-> "Setter", name |-> name, t |-> t]

TIndex(key, mutable, t) ==
    [elem |-> "Index", key |-> key, mutable |-> mutable, t |-> t]

TProp(name, optional, mutable, t) ==
    [elem |-> "Prop", name |-> name, optional |-> optional, mutable |-> mutable,
     t |-> t]

TObject(elems, is_interface) ==
    [kind |-> "Object", elems |-> elems, is_interface |-> is_interface]

\* Faulty variant: a property keeps its mutable flag.
readonly_prop_kept(prop) == prop

\* TObjElem::Prop(TProp { mutable: false, ..prop.to_owned() })
readonly_prop(prop) == [prop EXCEPT !.mutable = FALSE]

\* Faulty variant: getters are filtered out like setters.
readonly_getter_dropped(getter) == <<>>

\* TObjElem::Getter(_) => Some(elem.to_owned())
readonly_getter(getter) == <<getter>>

\* The filter_map closure: what an element becomes (no element or one).
readonly_elem(elem) ==
    CASE elem.elem = "Call" -> <<elem>>
      [] elem.elem = "Constructor" -> <<elem>>
      [] elem.elem = "Method" -> IF elem.is_mutating THEN <<>> ELSE <<elem>>
      [] elem.elem = "Getter" -> readonly_getter(elem)
      [] elem.elem = "Setter" -> <<>>
      [] elem.elem = "Index" -> <<[elem EXCEPT !.mutable = FALSE]>>
      [] elem.elem = "Prop" -> <<readonly_prop(elem)>>

\* The elements for which the closure sets `changed = true`.
sets_changed(elem) ==
    \/ elem.elem = "Method" /\ elem.is_mutating
    \/ elem.elem = "Setter"
    \/ elem.elem = "Index" /\ elem.mutable
    \/ elem.elem = "Prop" /\ elem.mutable

\* Option<TObject>: <<>> is None, <<o>> is Some(o).
immutable_obj_type(obj) ==
    LET changed == \E i \in DOMAIN obj.elems : sets_changed(obj.elems[i])
        elems == Concat([i \in DOMAIN obj.elems |-> readonly_elem(obj.elems[i])])
    IN  IF changed THEN <<TObject(elems, obj.is_interface)>> ELSE <<>>

MaxElems == 3

ObjElems ==
    {TCall(Number), TConstructor(TRef("T")),
     TMethod("m", FALSE, Number), TMethod("m", TRUE, Number),
     TGetter("g", String), TSetter("g", String),
     TIndex("k", FALSE, Number), TIndex("k", TRUE, Number),
     TProp("x", FALSE, FALSE, Number), TProp("x", FALSE, TRUE, Number),
     TProp("y", TRUE, TRUE, String)}

ObjTypes ==
    {TObject(elems, is_interface) :
        elems \in SeqsUpTo(ObjElems, MaxElems), is_interface \in BOOLEAN}

InitReadonly ==
    /\ Checker_default
    /\ \E obj \in ObjTypes :
           call = [fn |-> "immutable_obj_type", obj |-> obj, of_view |-> FALSE]
    /\ ret = <<>>

immutable_obj_type_call ==
    /\ call.fn = "immutable_obj_type"
    /\ ret = <<>>
    /\ ret' = <<immutable_obj_type(call.obj)>>
    /\ UNCHANGED <<checker_vars, call>>

\* The caller hands the object it was given back to immutable_obj_type.
immutable_obj_type_again ==
    /\ call.fn = "immutable_obj_type"
    /\ ~call.of_view
    /\ ret # <<>>
    /\ ret[1] # <<>>
    /\ call' = [call EXCEPT !.obj = ret[1][1], !.of_view = TRUE]
    /\ ret' = <<>>
    /\ UNCHANGED checker_vars

NextReadonly == immutable_obj_type_call \/ immutable_obj_type_again

SpecReadonly == InitReadonly /\ [][NextReadonly]_vars

ReadonlyDone == call.fn = "immutable_obj_type" /\ ret # <<>>

\* C12: immutable_obj_type applied to an object it returned reports no
\* further change: it returns None.
C12_ReadonlyViewIdempotent ==
    (ReadonlyDone /\ call.of_view) => ret[1] = <<>>

\* A view with elements left in it was handed back and None was returned.
C12_Witness ==
    /\ ReadonlyDone
    /\ call.of_view
    /\ ret[1] = <<>>
    /\ \E i \in DOMAIN call.obj.elems : call.obj.elems[i].elem = "Prop"
    /\ \E i \in DOMAIN call.obj.elems : call.obj.elems[i].elem = "Index"

Removed(elem) ==
    \/ elem.elem = "Setter"
    \/ elem.elem = "Method" /\ elem.is_mutating

\* C13: the view keeps, in their original relative order, every element that
\* is not a setter or a mutating method; call and constructor signatures,
\* getters and non-mutating methods are unchanged, properties and index
\* signatures differ from the original in the mutable flag only, which is
\* cleared.
C13_ReadonlyViewElems ==
    (ReadonlyDone /\ ret[1] # <<>>) =>
        LET from == call.obj.elems
            out == ret[1][1].elems
            Kept == {i \in DOMAIN from : ~Removed(from[i])}
            pos(i) == Cardinality({k \in Kept : k <= i})
        IN  /\ Len(out) = Cardinality(Kept)
            /\ \A i \in Kept :
                   CASE from[i].elem = "Prop" ->
                           /\ out[pos(i)].elem = "Prop"
                           /\ out[pos(i)].name = from[i].name
                           /\ out[pos(i)].optional = from[i].optional
                           /\ out[pos(i)].t = from[i].t
                           /\ ~out[pos(i)].mutable
                     [] from[i].elem = "Index" ->
                           /\ out[pos(i)].elem = "Index"
                           /\ out[pos(i)].key = from[i].key
                           /\ out[pos(i)].t = from[i].t
                           /\ ~out[pos(i)].mutable
                     [] OTHER -> out[pos(i)] = from[i]

\* A view was made of an object with a setter before a getter and a mutable
\* property.
C13_Witness ==
    /\ ReadonlyDone
    /\ ~call.of_view
    /\ ret[1] # <<>>
    /\ \E i, j, k \in DOMAIN call.obj.elems :
           /\ i < j
           /\ call.obj.elems[i].elem = "Setter"
           /\ call.obj.elems[j].elem = "Getter"
           /\ call.obj.elems[k].elem = "Prop" /\ call.obj.elems[k].mutable
    /\ Len(ret[1][1].elems) = 2

-----------------------------------------------------------------------------
(* Keys of a type (crochet_infer/src/key_of.rs) *)

\* crochet_types::Type has the variants below beside those above. Its
\* Prim(Num | Bool | Str) is written as the keyword number | boolean | string,
\* which is what the union operators above take for the primitive of a
\* literal; its Keyword is null | symbol | undefined | never.
Tuple(ts) == [kind |-> "Tuple", types |-> ts]

Intersection(ts) == [kind |-> "Intersection", types |-> ts]

KeyOf(t) == [kind |-> "KeyOf", arg |-> t]

Rest(t) == [kind |-> "Rest", arg |-> t]

App(args, r) == [kind |-> "App", args |-> args, ret |-> r]

This == [kind |-> "This"]

Null == Keyword("null")

Undefined == Keyword("undefined")

Symbol == Keyword("symbol")

\* Result<Type, String>; a todo!() that is reached aborts the call.
Ok(t) == [ok |-> TRUE, aborted |-> FALSE, t |-> t]

Err == [ok |-> FALSE, aborted |-> FALSE]

Todo == [ok |-> FALSE, aborted |-> TRUE]

\* Context::lookup_alias and Context::lookup_type_and_instantiate for types
\* without type parameters: the type stored under the name, or an error.
lookup_type_and_instantiate(ctx, name) ==
    IF name \in DOMAIN ctx.types THEN Ok(ctx.types[name]) ELSE Err

lookup_alias(ctx, alias) == lookup_type_and_instantiate(ctx, alias.name)

\* Faulty variant: a call signature contributes a key.
elem_key_of_call(elem) ==
    CASE elem.elem = "Call" -> Ok(<<Lit("Str", "c")>>)
      [] elem.elem = "Constructor" -> Ok(<<>>)
      [] elem.elem = "Index" -> Todo
      [] elem.elem = "Prop" -> Ok(<<Lit("Str", elem.name)>>)

\* The filter_map closure of the Object case: no key or one key per element.
\* (The `t` of the result is the Option as a sequence.)
elem_key(elem) ==
    CASE elem.elem = "Call" -> Ok(<<>>)
      [] elem.elem = "Constructor" -> Ok(<<>>)
      [] elem.elem = "Index" -> Todo
      [] elem.elem = "Prop" -> Ok(<<Lit("Str", elem.name)>>)

\* Faulty variant: the members whose keys could not be computed are left out.
collect_partial(rs) ==
    LET IsOk(r) == r.ok
        oks == SelectSeq(rs, IsOk)
    IN  Ok([i \in DOMAIN oks |-> oks[i].t])

\* Iterator::collect into a Result<Vec<_>, _>: the values of rs if all are
\* Ok, else the first that is not (the later ones are not computed).
collect(rs) ==
    IF \A i \in DOMAIN rs : rs[i].ok
    THEN Ok([i \in DOMAIN rs |-> rs[i].t])
    ELSE rs[CHOOSE i \in DOMAIN rs :
                ~rs[i].ok /\ \A j \in DOMAIN rs : j < i => rs[j].ok]

Digits == <<"0", "1", "2", "3">>

\* i.to_string() for the indices of a tuple
index_name(i) == Digits[i + 1]

RECURSIVE key_of(_, _)
key_of(t, ctx) ==
    LET of_named(name) ==
            LET found == lookup_type_and_instantiate(ctx, name)
            IN  IF found.ok THEN key_of(found.t, ctx) ELSE found
    IN  CASE t.kind = "Var" -> Err
          [] t.kind = "Ref" ->
                LET found == lookup_alias(ctx, t)
                IN  IF found.ok THEN key_of(found.t, ctx) ELSE found
          [] t.kind = "Object" ->
                LET keys == collect([i \in DOMAIN t.elems |-> elem_key(t.elems[i])])
                IN  IF keys.ok THEN Ok(union_many_types(Concat(keys.t))) ELSE keys
          [] t.kind = "Keyword" /\ t.kw = "number" -> of_named("Number")
          [] t.kind = "Keyword" /\ t.kw = "boolean" -> of_named("Boolean")
          [] t.kind = "Keyword" /\ t.kw = "string" -> of_named("String")
          [] t.kind = "Lit" /\ t.base = "Num" -> of_named("Number")
          [] t.kind = "Lit" /\ t.base = "Bool" -> of_named("Boolean")
          [] t.kind = "Lit" /\ t.base = "Str" -> of_named("String")
          [] t.kind = "Tuple" ->
                LET indices == [i \in DOMAIN t.types |-> Lit("Num", index_name(i - 1))]
                    array_keys == of_named("ReadonlyArray")
                IN  IF array_keys.ok
                    THEN Ok(union_many_types(indices \o <<array_keys.t>>))
                    ELSE array_keys
          [] t.kind = "Array" ->
                LET array_keys == of_named("ReadonlyArray")
                IN  IF array_keys.ok
                    THEN Ok(union_many_types(<<Number, array_keys.t>>))
                    ELSE array_keys
          [] t.kind = "Lam" -> of_named("Function")
          [] t.kind = "App" -> Todo
          [] t.kind = "Keyword" /\ t.kw = "null" -> Ok(Never)
          [] t.kind = "Keyword" /\ t.kw = "symbol" -> of_named("Symbol")
          [] t.kind = "Keyword" /\ t.kw = "undefined" -> Ok(Never)
          [] t.kind = "Keyword" /\ t.kw = "never" -> Ok(Never)
          [] t.kind = "Union" -> Todo
          [] t.kind = "Intersection" ->
                LET elems == collect([i \in DOMAIN t.types |-> key_of(t.types[i], ctx)])
                IN  IF elems.ok THEN Ok(union_many_types(elems.t)) ELSE elems
          [] t.kind = "Rest" -> Todo
          [] t.kind = "This" -> Todo
          [] t.kind = "KeyOf" ->
                LET inner == key_of(t.arg, ctx)
                IN  IF inner.ok THEN key_of(inner.t, ctx) ELSE inner

MaxMembers == 2

KeyElems ==
    {TProp("x", FALSE, FALSE, Number), TProp("y", FALSE, FALSE, Number),
     TProp("a", TRUE, TRUE, String), TCall(Number), TConstructor(TRef("T")),
     TIndex("k", FALSE, Number)}

KeyObjects == {TObject(elems, FALSE) : elems \in SeqsUpTo(KeyElems, MaxElems)}

Obj(names) ==
    TObject([i \in DOMAIN names |-> TProp(names[i], FALSE, FALSE, Number)], FALSE)

\* {a, b} & {b, c} is the intersection of test_intersection.
KeyMembers ==
    {Obj(<<"a", "b">>), Obj(<<"b", "c">>), Obj(<<"x">>), Obj(<<>>),
     TVar(1), Never, TRef("T"), Union(<<Obj(<<"x">>), Obj(<<"x", "y">>)>>)}

KeyTypes ==
    KeyObjects
        \cup {Intersection(ts) : ts \in SeqsUpTo(KeyMembers, MaxMembers)}
        \cup {Union(ts) : ts \in SeqsUpTo({Obj(<<"x">>), Obj(<<"x", "y">>), Obj(<<"a">>)},
                                          MaxMembers) \ {<<>>}}
        \cup {TVar(1), TRef("T"), TRef("B"), Number, String, Lit("Num", "5"),
              Tuple(<<Number, String>>), Array(Number), Lam(<<>>, Number, <<>>),
              Null, Undefined, Never, Symbol, This, Rest(Number),
              App(<<Number>>, Number), KeyOf(Obj(<<"x">>)), KeyOf(TRef("T"))}

\* A context in which T, Number and ReadonlyArray are declared, and one in
\* which nothing is.
KeyCtxs ==
    {[ScopeDefault EXCEPT !.types =
         Put(Put(Put(EmptyMap, "T", Obj(<<"x", "y">>)),
                 "Number", Obj(<<"toFixed">>)),
             "ReadonlyArray", Obj(<<"length">>))],
     ScopeDefault}

InitKeyOf ==
    /\ Checker_default
    /\ \E t \in KeyTypes, ctx \in KeyCtxs :
           call = [fn |-> "key_of", t |-> t, ctx |-> ctx]
    /\ ret = <<>>

key_of_call ==
    /\ call.fn = "key_of"
    /\ ret = <<>>
    /\ ~panicked
    /\ LET result == key_of(call.t, call.ctx)
       IN  IF result.aborted
           THEN panicked' = TRUE /\ UNCHANGED ret
           ELSE ret' = <<result>> /\ UNCHANGED panicked
    /\ UNCHANGED <<unpanicked_checker_vars, call>>

NextKeyOf == key_of_call

SpecKeyOf == InitKeyOf /\ [][NextKeyOf]_vars

KeyOfReturned == call.fn = "key_of" /\ ret # <<>>

\* The members of a type read as a union: none for never.
KeySet(t) ==
    CASE t.kind = "Union" -> Range(t.types)
      [] t.kind = "Keyword" /\ t.kw = "never" -> {}
      [] OTHER -> {t}

\* A union has two members or more, each once, none of them a union or never.
Simplified(t) ==
    t.kind = "Union" =>
        /\ Len(t.types) >= 2
        /\ Cardinality(Range(t.types)) = Len(t.types)
        /\ \A i \in DOMAIN t.types :
               t.types[i].kind # "Union" /\ t.types[i] # Never

PropNames(obj) ==
    {obj.elems[i].name : i \in {j \in DOMAIN obj.elems : obj.elems[j].elem = "Prop"}}

\* C14: for an object type whose elements are properties, call signatures and
\* constructor signatures, key_of returns the simplified union of one string
\* literal per property name: a bare literal for one name, never for none.
C14_KeyOfObject ==
    (/\ KeyOfReturned
     /\ call.t.kind = "Object"
     /\ \A i \in DOMAIN call.t.elems :
            call.t.elems[i].elem \in {"Prop", "Call", "Constructor"}) =>
        /\ ret[1].ok
        /\ KeySet(ret[1].t) = {Lit("Str", name) : name \in PropNames(call.t)}
        /\ Simplified(ret[1].t)

\* test_object with a call signature added: the keys are "x" | "y".
C14_Witness ==
    /\ KeyOfReturned
    /\ call.t.kind = "Object"
    /\ \E i \in DOMAIN call.t.elems : call.t.elems[i].elem = "Call"
    /\ PropNames(call.t) = {"x", "y"}
    /\ ret[1].ok
    /\ ret[1].t.kind = "Union"

MemberKeys(i) == key_of(call.t.types[i], call.ctx)

\* C15: for an intersection, key_of returns the simplified union of the keys
\* of the members, a key of several members once; if key_of fails for a
\* member, the call fails and returns no key set.
C15_KeyOfIntersection ==
    (KeyOfReturned /\ call.t.kind = "Intersection") =>
        /\ (\A i \in DOMAIN call.t.types : MemberKeys(i).ok) =>
               /\ ret[1].ok
               /\ KeySet(ret[1].t) =
                      UNION {KeySet(MemberKeys(i).t) : i \in DOMAIN call.t.types}
               /\ Simplified(ret[1].t)
        /\ (\E i \in DOMAIN call.t.types : ~MemberKeys(i).ok) =>
               /\ ~ret[1].ok
               /\ "t" \notin DOMAIN ret[1]

\* test_intersection: the keys of {a, b} & {b, c} are "a" | "b" | "c".
C15_Witness ==
    /\ KeyOfReturned
    /\ call.t = Intersection(<<Obj(<<"a", "b">>), Obj(<<"b", "c">>)>>)
    /\ ret[1].ok
    /\ ret[1].t.kind = "Union"
    /\ Range(ret[1].t.types) = {Lit("Str", "a"), Lit("Str", "b"), Lit("Str", "c")}
    /\ Len(ret[1].t.types) = 3

\* The keys of an intersection with a member whose keys cannot be computed
\* were asked for.
C15_FailureWitness ==
    /\ KeyOfReturned
    /\ call.t.kind = "Intersection"
    /\ Len(call.t.types) = 2
    /\ MemberKeys(1).ok
    /\ ~MemberKeys(2).ok
    /\ ~ret[1].ok

RECURSIVE Meet(_)
\* The elements common to all the sets of a non-empty sequence of sets.
Meet(sets) ==
    IF Len(sets) = 1 THEN sets[1] ELSE sets[1] \cap Meet(Tail(sets))

\* C16: for a union, key_of returns the intersection of the key sets of the
\* members.
C16_KeyOfUnion ==
    (/\ call.fn = "key_of"
     /\ call.t.kind = "Union"
     /\ \A i \in DOMAIN call.t.types : MemberKeys(i).ok
     /\ (ret # <<>> \/ panicked)) =>
        /\ ret # <<>>
        /\ ret[1].ok
        /\ KeySet(ret[1].t) =
               Meet([i \in DOMAIN call.t.types |-> KeySet(MemberKeys(i).t)])

-----------------------------------------------------------------------------
(* Patterns (escalier_ast) and their parser (escalier_parser/src/pattern_parser.rs) *)

BindingIdent(name, mutable) == [name |-> name, mutable |-> mutable]

IdentPat(name, mutable) == [pat |-> "Ident", name |-> name, mutable |-> mutable]

WildcardPat == [pat |-> "Wildcard"]

LitPat(lit) == [pat |-> "Lit", lit |-> lit]

IsPat(ident, is_id) == [pat |-> "Is", ident |-> ident, is_id |-> is_id]

RestPat(arg) == [pat |-> "Rest", arg |-> arg]

\* elems: one Option<TuplePatElem> per position (<<>> is a gap).
TuplePat(elems) == [pat |-> "Tuple", elems |-> elems]

TuplePatElem(pattern) == [pattern |-> pattern, init |-> <<>>]

ObjectPat(props) == [pat |-> "Object", props |-> props]

KeyValuePatProp(key, value) == [prop |-> "KeyValue", key |-> key, value |-> value]

ShorthandPatProp(ident) == [prop |-> "Shorthand", ident |-> ident]

RestPatProp(arg) == [prop |-> "Rest", arg |-> arg]

\* Tokens
Tok(kind) == [kind |-> kind]

Identifier(name) == [kind |-> "Identifier", name |-> name]

NumLit(value) == [kind |-> "NumLit", value |-> value]

EOF == Tok("Eof")

\* self.peek().unwrap_or(&EOF), for the token at position pos
peek(toks, pos) == IF pos <= Len(toks) THEN toks[pos] ELSE EOF

\* Ok(Pattern) with the position of the next token; a panic aborts the parse.
Parsed(pat, pos) == [aborted |-> FALSE, pat |-> pat, pos |-> pos]

ParsePanic == [aborted |-> TRUE]

\* `if has_rest { panic!(..) }` in the DotDotDot arm of the tuple loop
second_rest_panics(has_rest, tok) == tok.kind = "DotDotDot" /\ has_rest

RECURSIVE parse_pattern(_, _)
RECURSIVE parse_tuple_elems(_, _, _, _)
RECURSIVE parse_object_props(_, _, _)

\* The loop of the LeftBracket arm, entered with pos at the token after the
\* bracket or after a comma.
parse_tuple_elems(toks, pos, elems, has_rest) ==
    LET tok == peek(toks, pos)
    IN  IF tok.kind = "RightBracket"
        THEN Parsed(TuplePat(elems), pos + 1)
        ELSE IF second_rest_panics(has_rest, tok)
        THEN ParsePanic
        ELSE LET elem == parse_pattern(toks, pos)
             IN  IF elem.aborted
                 THEN elem
                 ELSE LET pushed == Append(elems, <<TuplePatElem(elem.pat)>>)
                          after == peek(toks, elem.pos)
                      IN  CASE after.kind = "Comma" ->
                                  parse_tuple_elems(toks, elem.pos + 1, pushed,
                                                    has_rest \/ tok.kind = "DotDotDot")
                            [] after.kind = "RightBracket" ->
                                  Parsed(TuplePat(pushed), elem.pos + 1)
                            [] OTHER -> ParsePanic

\* The loop of the LeftBrace arm.
parse_object_props(toks, pos, props) ==
    LET first == peek(toks, pos)
        \* "require a comma or right brace"
        comma_or_brace(pushed, at) ==
            CASE peek(toks, at).kind = "Comma" -> parse_object_props(toks, at + 1, pushed)
              [] peek(toks, at).kind = "RightBrace" ->
                    Parsed(ObjectPat(pushed), at + 1)
              [] OTHER -> ParsePanic
    IN  CASE first.kind = "RightBrace" -> Parsed(ObjectPat(props), pos + 1)
          [] first.kind = "Identifier" ->
                IF peek(toks, pos + 1).kind = "Colon"
                THEN LET value == parse_pattern(toks, pos + 2)
                     IN  IF value.aborted
                         THEN value
                         ELSE comma_or_brace(
                                  Append(props, KeyValuePatProp(first.name, value.pat)),
                                  value.pos)
                ELSE comma_or_brace(
                         Append(props,
                                ShorthandPatProp(BindingIdent(first.name, FALSE))),
                         pos + 1)
          [] first.kind = "DotDotDot" ->
                LET arg == parse_pattern(toks, pos + 1)
                IN  IF arg.aborted
                    THEN arg
                    ELSE comma_or_brace(Append(props, RestPatProp(arg.pat)), arg.pos)
          [] first.kind = "Mut" ->
                IF peek(toks, pos + 1).kind = "Identifier"
                THEN parse_object_props(
                         toks, pos + 2,
                         Append(props,
                                ShorthandPatProp(
                                    BindingIdent(peek(toks, pos + 1).name, TRUE))))
                ELSE ParsePanic
          [] OTHER -> ParsePanic

parse_pattern(toks, pos) ==
    LET tok == peek(toks, pos)
        following == peek(toks, pos + 1)
    IN  CASE tok.kind = "Identifier" ->
                IF following.kind = "Is"
                THEN LET next == peek(toks, pos + 2)
                         ident == BindingIdent(tok.name, FALSE)
                     IN  CASE next.kind = "Identifier" ->
                                 Parsed(IsPat(ident, next.name), pos + 3)
                           [] next.kind = "Number" -> Parsed(IsPat(ident, "number"), pos + 3)
                           [] next.kind = "String" -> Parsed(IsPat(ident, "string"), pos + 3)
                           [] next.kind = "Boolean" ->
                                 Parsed(IsPat(ident, "boolean"), pos + 3)
                           [] next.kind = "Symbol" -> Parsed(IsPat(ident, "symbol"), pos + 3)
                           [] OTHER -> ParsePanic
                ELSE Parsed(IdentPat(tok.name, FALSE), pos + 1)
          [] tok.kind = "Mut" ->
                IF following.kind = "Identifier"
                THEN Parsed(IdentPat(following.name, TRUE), pos + 2)
                ELSE ParsePanic
          [] tok.kind = "StrLit" -> Parsed(LitPat(Lit("Str", tok.value)), pos + 1)
          [] tok.kind = "NumLit" -> Parsed(LitPat(Lit("Num", tok.value)), pos + 1)
          [] tok.kind = "BoolLit" -> Parsed(LitPat(Lit("Bool", tok.value)), pos + 1)
          [] tok.kind = "Null" -> Parsed(LitPat(Null), pos + 1)
          [] tok.kind = "Undefined" -> Parsed(LitPat(Undefined), pos + 1)
          [] tok.kind = "LeftBracket" -> parse_tuple_elems(toks, pos + 1, <<>>, FALSE)
          [] tok.kind = "LeftBrace" -> parse_object_props(toks, pos + 1, <<>>)
          [] tok.kind = "DotDotDot" ->
                LET arg == parse_pattern(toks, pos + 1)
                IN  IF arg.aborted THEN arg ELSE Parsed(RestPat(arg.pat), arg.pos)
          [] tok.kind = "Underscore" -> Parsed(WildcardPat, pos + 1)
          [] OTHER -> ParsePanic

-----------------------------------------------------------------------------
(* Pattern inference (escalier_infer/src/infer_pattern.rs) *)

\* The state the traversal threads through: the bindings collected so far
\* and the id of the next fresh variable.
PatState(assump, id) == [assump |-> assump, next_id |-> id]

\* Ok(t), with the state the traversal has reached
Inferred(t, st) ==
    [status |-> "Ok", t |-> t, assump |-> st.assump, next_id |-> st.next_id]

\* Err(..); the counter of fresh variables is where the traversal left it.
InferErr(error, st) == [status |-> "Err", error |-> error, next_id |-> st.next_id]

\* panic!(..) or todo!(..)
InferPanic == [status |-> "Panic"]

\* assump.insert(name, binding).is_some(), and the map after the insert
binds(st, name) == name \in DOMAIN st.assump

bound(st, name, binding) == [st EXCEPT !.assump = Put(st.assump, name, binding)]

fresh(st) == [st EXCEPT !.next_id = st.next_id + 1]

\* The keyword or reference an `is` pattern tests for.
is_type(is_id) ==
    CASE is_id = "string" -> String
      [] is_id = "number" -> Number
      [] is_id = "boolean" -> Boolean
      [] OTHER -> TRef(is_id)

RECURSIVE infer_pattern_rec(_, _)
RECURSIVE infer_array_elems(_, _, _, _)
RECURSIVE infer_object_props(_, _, _, _, _)

\* The map over the elements of an array (tuple) pattern, collected into a
\* Result: the elements from the i-th on, after those that gave `types`.
infer_array_elems(elems, i, st, types) ==
    IF i > Len(elems)
    THEN Inferred(Tuple(types), st)
    ELSE IF elems[i] = <<>>
    THEN InferPanic
    ELSE LET pattern == elems[i][1].pattern
             elem == IF pattern.pat = "Rest"
                     THEN LET rest_ty == infer_pattern_rec(pattern.arg, st)
                          IN  IF rest_ty.status = "Ok"
                              THEN [rest_ty EXCEPT !.t = Rest(rest_ty.t)]
                              ELSE rest_ty
                     ELSE infer_pattern_rec(pattern, st)
         IN  IF elem.status = "Ok"
             THEN infer_array_elems(elems, i + 1, PatState(elem.assump, elem.next_id),
                                    Append(types, elem.t))
             ELSE elem

\* The loop over the properties of an object pattern, from the i-th on.
infer_object_props(props, i, st, elems, rest_opt_ty) ==
    IF i > Len(props)
    THEN LET obj_type == TObject(elems, FALSE)
         IN  IF rest_opt_ty # <<>>
             THEN Inferred(Intersection(<<obj_type, rest_opt_ty[1]>>), st)
             ELSE Inferred(obj_type, st)
    ELSE LET prop == props[i]
         IN  CASE prop.prop = "KeyValue" ->
                     LET value_type == infer_pattern_rec(prop.value, st)
                     IN  IF value_type.status = "Ok"
                         THEN infer_object_props(
                                  props, i + 1,
                                  PatState(value_type.assump, value_type.next_id),
                                  Append(elems, TProp(prop.key, FALSE, FALSE, value_type.t)),
                                  rest_opt_ty)
                         ELSE value_type
               [] prop.prop = "Shorthand" ->
                     LET tv == TVar(st.next_id)
                     IN  IF binds(st, prop.ident.name)
                         THEN InferPanic
                         ELSE infer_object_props(
                                  props, i + 1,
                                  bound(fresh(st), prop.ident.name, Binding(tv, FALSE)),
                                  Append(elems, TProp(prop.ident.name, FALSE, FALSE, tv)),
                                  rest_opt_ty)
               [] prop.prop = "Rest" ->
                     IF rest_opt_ty # <<>>
                     THEN InferPanic
                     ELSE LET rest_ty == infer_pattern_rec(prop.arg, st)
                          IN  IF rest_ty.status = "Ok"
                              THEN infer_object_props(
                                       props, i + 1,
                                       PatState(rest_ty.assump, rest_ty.next_id),
                                       elems, <<rest_ty.t>>)
                              ELSE rest_ty

infer_pattern_rec(pat, st) ==
    CASE pat.pat = "Ident" ->
            LET tv == TVar(st.next_id)
            IN  IF binds(st, pat.name)
                THEN InferErr("DuplicateIdentInPat", fresh(st))
                ELSE Inferred(tv, bound(fresh(st), pat.name, Binding(tv, pat.mutable)))
      [] pat.pat = "Wildcard" -> Inferred(TVar(st.next_id), fresh(st))
      [] pat.pat = "Lit" -> Inferred(pat.lit, st)
      [] pat.pat = "Is" ->
            LET t == is_type(pat.is_id)
            IN  IF binds(st, pat.ident.name)
                THEN InferErr("DuplicateIdentInPat", st)
                ELSE Inferred(t, bound(st, pat.ident.name, Binding(t, FALSE)))
      [] pat.pat = "Rest" ->
            LET t == infer_pattern_rec(pat.arg, st)
            IN  IF t.status = "Ok" THEN [t EXCEPT !.t = Rest(t.t)] ELSE t
      [] pat.pat = "Tuple" -> infer_array_elems(pat.elems, 1, st, <<>>)
      [] pat.pat = "Object" -> infer_object_props(pat.props, 1, st, <<>>, <<>>)

\* unify(t1, t2, ctx): t1 is taken as a subtype of t2. Ok(s) or Err(..).
Unified(s) == [status |-> "Ok", s |-> s]

CannotUnify == [status |-> "Err"]

\* A variable is bound to a type it does not occur in.
bind_var(id, t) ==
    IF id \in ftv_ids(t) THEN CannotUnify ELSE Unified(Put(EmptyMap, id, t))

RECURSIVE unify(_, _)
RECURSIVE unify_props(_, _, _, _)
RECURSIVE unify_elems(_, _, _, _)
\* Every required property of the supertype bs is found in the subtype as.
unify_props(as, bs, i, s) ==
    IF i > Len(bs) THEN Unified(s)
    ELSE LET found == {j \in DOMAIN as : as[j].name = bs[i].name}
         IN  IF found = {}
             THEN IF bs[i].optional THEN unify_props(as, bs, i + 1, s) ELSE CannotUnify
             ELSE LET j == CHOOSE k \in found : \A l \in found : k <= l
                      u == unify(as[j].t, bs[i].t)
                  IN  IF u.status = "Ok"
                      THEN unify_props(as, bs, i + 1, compose_subs(u.s, s))
                      ELSE CannotUnify

unify_elems(as, bs, i, s) ==
    IF i > Len(bs) THEN Unified(s)
    ELSE LET u == unify(as[i], bs[i])
         IN  IF u.status = "Ok"
             THEN unify_elems(as, bs, i + 1, compose_subs(u.s, s))
             ELSE CannotUnify

unify(t1, t2) ==
    CASE t1 = t2 -> Unified(EmptyMap)
      [] t1 # t2 /\ t1.kind = "Var" -> bind_var(t1.id, t2)
      [] t1 # t2 /\ t1.kind # "Var" /\ t2.kind = "Var" -> bind_var(t2.id, t1)
      [] t1.kind = "Lit" /\ t2.kind = "Keyword" ->
            IF lit_keyword(t1) = t2 THEN Unified(EmptyMap) ELSE CannotUnify
      [] t1 # t2 /\ t1.kind = "Object" /\ t2.kind = "Object" ->
            unify_props(t1.elems, t2.elems, 1, EmptyMap)
      [] t1 # t2 /\ t1.kind = "Tuple" /\ t2.kind = "Tuple" ->
            IF Len(t1.types) = Len(t2.types)
            THEN unify_elems(t1.types, t2.types, 1, EmptyMap)
            ELSE CannotUnify
      [] OTHER -> CannotUnify

\* infer_type_ann_with_params: the annotation is written as the type it
\* denotes; no substitution comes from it.
infer_type_ann_with_params(type_ann) == [s |-> EmptyMap, t |-> type_ann]

\* Assump::apply
apply_bindings(assump, s) ==
    [name \in DOMAIN assump |-> [assump[name] EXCEPT !.t = apply(assump[name].t, s)]]

\* Faulty variant: the pattern's type is given as the subtype.
unify_type_ann_swapped(type_ann_t, pat_type) == unify(pat_type, type_ann_t)

\* unify(&type_ann_t, &pat_type, ctx)
unify_type_ann(type_ann_t, pat_type) == unify(type_ann_t, pat_type)

\* Ok((s, new_vars, t))
InferredPattern(s, assump, t, id) ==
    [status |-> "Ok", s |-> s, assump |-> assump, t |-> t, next_id |-> id]

\* infer_pattern: the bindings start empty, the fresh variables continue from
\* the context's counter; type_ann is <<>> (None) or <<type>>.
infer_pattern(pat, type_ann, id) ==
    LET rec == infer_pattern_rec(pat, PatState(EmptyMap, id))
    IN  IF rec.status # "Ok" THEN rec
        ELSE IF type_ann = <<>>
        THEN InferredPattern(EmptyMap, rec.assump, rec.t, rec.next_id)
        ELSE LET ann == infer_type_ann_with_params(type_ann[1])
                 u == unify_type_ann(ann.t, rec.t)
             IN  IF u.status # "Ok"
                 THEN InferErr("CannotUnify", PatState(EmptyMap, rec.next_id))
                 ELSE LET s == compose_subs(u.s, ann.s)
                      IN  InferredPattern(s, apply_bindings(rec.assump, s), ann.t,
                                          rec.next_id)

\* infer_expr, for an expression whose type is known (a literal) and for one
\* whose type is a fresh variable (a call of an unknown function).
infer_expr(expr, id) ==
    IF expr.expr = "Call"
    THEN [s |-> EmptyMap, t |-> TVar(id), next_id |-> id + 1]
    ELSE [s |-> EmptyMap, t |-> expr.t, next_id |-> id]

\* Faulty variant: the directions of the two usages are exchanged.
unify_init_swapped(pu, it, pt) ==
    IF pu = "Assign" THEN unify(pt, it) ELSE unify(it, pt)

\* Assign: the init's type is a subtype of the pattern's; Match: the
\* pattern's type is a subtype of the type of the expression matched.
unify_init(pu, it, pt) ==
    IF pu = "Assign" THEN unify(it, pt) ELSE unify(pt, it)

infer_pattern_and_init(pat, type_ann, init, pu, id) ==
    LET p == infer_pattern(pat, type_ann, id)
    IN  IF p.status # "Ok" THEN p
        ELSE LET e == infer_expr(init, p.next_id)
                 u == unify_init(pu, e.t, p.t)
             IN  IF u.status # "Ok"
                 THEN InferErr("CannotUnify", PatState(EmptyMap, e.next_id))
                 ELSE LET s == compose_many_subs(<<e.s, p.s, u.s>>)
                      IN  [status |-> "Ok", assump |-> apply_bindings(p.assump, s),
                           s |-> s, next_id |-> e.next_id]

-----------------------------------------------------------------------------
(* Pattern inference (escalier_hm/src/infer_pattern.rs) *)

\* Binding { index, is_mut } of escalier_hm; the index is written as the type
\* it stands for.
HmBinding(index, is_mut) == [index |-> index, is_mut |-> is_mut]

\* TProp of escalier_hm
HmTProp(name, optional, readonly, t) ==
    [elem |-> "Prop", name |-> name, optional |-> optional, readonly |-> readonly,
     t |-> t]

\* Checker::get_type: the type declared under the name, or an error.
get_type(name, ctx) ==
    IF name \in DOMAIN ctx.types THEN Ok(ctx.types[name]) ELSE Err

RECURSIVE hm_infer_pattern_rec(_, _, _)
RECURSIVE hm_infer_tuple_elems(_, _, _, _, _)
RECURSIVE hm_infer_object_props(_, _, _, _, _, _)

hm_infer_tuple_elems(elems, i, st, elem_types, ctx) ==
    IF i > Len(elems)
    THEN Inferred(Tuple(elem_types), st)
    ELSE LET t == IF elems[i] = <<>>
                  THEN Inferred(Undefined, st)
                  ELSE hm_infer_pattern_rec(elems[i][1].pattern, st, ctx)
         IN  IF t.status = "Ok"
             THEN hm_infer_tuple_elems(elems, i + 1, PatState(t.assump, t.next_id),
                                       Append(elem_types, t.t), ctx)
             ELSE t

hm_infer_object_props(props, i, st, elems, rest_opt_ty, ctx) ==
    IF i > Len(props)
    THEN LET obj_type == TObject(elems, FALSE)
         IN  IF rest_opt_ty # <<>>
             THEN Inferred(Intersection(<<obj_type, rest_opt_ty[1]>>), st)
             ELSE Inferred(obj_type, st)
    ELSE LET prop == props[i]
         IN  CASE prop.prop = "KeyValue" ->
                     LET value_type == hm_infer_pattern_rec(prop.value, st, ctx)
                     IN  IF value_type.status = "Ok"
                         THEN hm_infer_object_props(
                                  props, i + 1,
                                  PatState(value_type.assump, value_type.next_id),
                                  Append(elems,
                                         HmTProp(prop.key, FALSE, FALSE, value_type.t)),
                                  rest_opt_ty, ctx)
                         ELSE value_type
               [] prop.prop = "Shorthand" ->
                     LET t == TVar(st.next_id)
                     IN  IF binds(st, prop.ident.name)
                         THEN InferPanic
                         ELSE hm_infer_object_props(
                                  props, i + 1,
                                  bound(fresh(st), prop.ident.name, HmBinding(t, FALSE)),
                                  Append(elems, HmTProp(prop.ident.name, FALSE, FALSE, t)),
                                  rest_opt_ty, ctx)
               [] prop.prop = "Rest" ->
                     IF rest_opt_ty # <<>>
                     THEN InferErr("Maximum one rest pattern allowed in object patterns", st)
                     ELSE LET rest_ty == hm_infer_pattern_rec(prop.arg, st, ctx)
                          IN  IF rest_ty.status = "Ok"
                              THEN hm_infer_object_props(
                                       props, i + 1,
                                       PatState(rest_ty.assump, rest_ty.next_id),
                                       elems, <<rest_ty.t>>, ctx)
                              ELSE rest_ty

hm_infer_pattern_rec(pattern, st, ctx) ==
    CASE pattern.pat = "Ident" ->
            LET t == TVar(st.next_id)
            IN  IF binds(st, pattern.name)
                THEN InferErr("Duplicate identifier in pattern", fresh(st))
                ELSE Inferred(t, bound(fresh(st), pattern.name,
                                       HmBinding(t, pattern.mutable)))
      [] pattern.pat = "Rest" ->
            LET arg_type == hm_infer_pattern_rec(pattern.arg, st, ctx)
            IN  IF arg_type.status = "Ok"
                THEN [arg_type EXCEPT !.t = Rest(arg_type.t)]
                ELSE arg_type
      [] pattern.pat = "Object" ->
            hm_infer_object_props(pattern.props, 1, st, <<>>, <<>>, ctx)
      [] pattern.pat = "Tuple" -> hm_infer_tuple_elems(pattern.elems, 1, st, <<>>, ctx)
      [] pattern.pat = "Lit" -> Inferred(pattern.lit, st)
      [] pattern.pat = "Is" ->
            LET found == IF pattern.is_id \in {"number", "string", "boolean"}
                         THEN Ok(is_type(pattern.is_id))
                         ELSE get_type(pattern.is_id, ctx)
            IN  IF found.ok
                THEN Inferred(found.t,
                              bound(st, pattern.ident.name, HmBinding(found.t, FALSE)))
                ELSE InferErr("get_type", st)
      [] pattern.pat = "Wildcard" -> Inferred(TVar(st.next_id), fresh(st))

\* Checker::infer_pattern
hm_infer_pattern(pattern, ctx, id) ==
    hm_infer_pattern_rec(pattern, PatState(EmptyMap, id), ctx)

-----------------------------------------------------------------------------
(* Parsing a pattern and inferring its type *)

MaxPatElems == 3

X == Identifier("x")

Y == Identifier("y")

\* The token sequences joined by commas.
RECURSIVE Join(_)
Join(parts) ==
    CASE Len(parts) = 0 -> <<>>
      [] Len(parts) = 1 -> parts[1]
      [] OTHER -> parts[1] \o <<Tok("Comma")>> \o Join(Tail(parts))

\* x, y, mut x, ...x, ...y, _, x is number, [y], {x}, 5
ElemInputs ==
    {<<X>>, <<Y>>, <<Tok("Mut"), X>>, <<Tok("DotDotDot"), X>>,
     <<Tok("DotDotDot"), Y>>, <<Tok("Underscore")>>, <<X, Tok("Is"), Tok("Number")>>,
     <<Tok("LeftBracket"), Y, Tok("RightBracket")>>,
     <<Tok("LeftBrace"), X, Tok("RightBrace")>>, <<NumLit("5")>>}

\* x, y, mut x, x: y, y: mut x, ...x, ...y, y: x is T
PropInputs ==
    {<<X>>, <<Y>>, <<Tok("Mut"), X>>, <<X, Tok("Colon"), Y>>,
     <<Y, Tok("Colon"), Tok("Mut"), X>>, <<Tok("DotDotDot"), X>>,
     <<Tok("DotDotDot"), Y>>, <<Y, Tok("Colon"), X, Tok("Is"), Identifier("T")>>}

TupleInputs ==
    {<<Tok("LeftBracket")>> \o Join(es) \o <<Tok("RightBracket")>> :
        es \in SeqsUpTo(ElemInputs, MaxPatElems)}

ObjectInputs ==
    {<<Tok("LeftBrace")>> \o Join(ps) \o <<Tok("RightBrace")>> :
        ps \in SeqsUpTo(PropInputs, MaxPatElems)}

\* Inputs that are not a tuple or object pattern, some of them not a pattern.
OtherInputs ==
    ElemInputs \cup
        {<<>>, <<Tok("LeftBracket"), X>>, <<Tok("LeftBrace"), Tok("Colon")>>,
         <<Tok("Mut"), Tok("LeftBracket")>>, <<X, Tok("Is"), Tok("Comma")>>,
         <<Tok("LeftBrace"), X, X>>, <<X, Tok("Is"), Identifier("U")>>}

PatternInputs == TupleInputs \cup ObjectInputs \cup OtherInputs

\* The context of the inference: the type T is declared.
PatCtx == [ScopeDefault EXCEPT !.types = Put(EmptyMap, "T", Obj(<<"x">>))]

InitPattern ==
    /\ Checker_default
    /\ \E input \in PatternInputs : call = [fn |-> "parse_pattern", input |-> input]
    /\ ret = <<>>

unaborted_checker_vars ==
    <<current_scope, parent_scopes, diagnostics, current_report, parent_reports,
      steps, last_op, issued, scope_marks, popped_mark, applied, popped_applied,
      report_marks, popped_report>>

\* Parser::new(input).parse_pattern()
parse_pattern_call ==
    /\ call.fn = "parse_pattern"
    /\ ret = <<>>
    /\ ~panicked
    /\ LET parsed == parse_pattern(call.input, 1)
       IN  IF parsed.aborted
           THEN panicked' = TRUE /\ UNCHANGED ret
           ELSE ret' = <<parsed>> /\ UNCHANGED panicked
    /\ UNCHANGED <<unaborted_checker_vars, next_id, call>>

\* The outcome of an inference becomes the state: a panic aborts, a result
\* is returned and the counter of fresh variables has advanced.
inferred_as(fn, result) ==
    /\ call' = [fn |-> fn, input |-> call.input, pat |-> ret[1].pat, ctx |-> PatCtx]
    /\ IF result.status = "Panic"
       THEN panicked' = TRUE /\ ret' = <<>> /\ UNCHANGED next_id
       ELSE ret' = <<result>> /\ next_id' = result.next_id /\ UNCHANGED panicked
    /\ UNCHANGED unaborted_checker_vars

\* escalier_infer: infer_pattern(&mut pat, &mut None, ctx, ..) on the parsed pattern
infer_pattern_call ==
    /\ call.fn = "parse_pattern"
    /\ ret # <<>>
    /\ inferred_as("infer_pattern", infer_pattern(ret[1].pat, <<>>, next_id))

\* escalier_hm: checker.infer_pattern(&mut pattern, ctx) on the parsed pattern
hm_infer_pattern_call ==
    /\ call.fn = "parse_pattern"
    /\ ret # <<>>
    /\ inferred_as("hm_infer_pattern", hm_infer_pattern(ret[1].pat, PatCtx, next_id))

NextPattern == parse_pattern_call \/ infer_pattern_call \/ hm_infer_pattern_call

SpecPattern == InitPattern /\ [][NextPattern]_vars

\* infer_pattern has run to its end on call.pat: it returned or it panicked.
PatternInferred ==
    /\ call.fn \in {"infer_pattern", "hm_infer_pattern"}
    /\ (ret # <<>> \/ panicked)

PatternAccepted == PatternInferred /\ ret # <<>> /\ ret[1].status = "Ok"

RECURSIVE Binders(_)
\* The binders written in a pattern, in source order: name and `mut` flag.
Binders(pat) ==
    CASE pat.pat = "Ident" -> <<BindingIdent(pat.name, pat.mutable)>>
      [] pat.pat = "Is" -> <<BindingIdent(pat.ident.name, FALSE)>>
      [] pat.pat = "Rest" -> Binders(pat.arg)
      [] pat.pat = "Tuple" ->
            Concat([i \in DOMAIN pat.elems |->
                       IF pat.elems[i] = <<>> THEN <<>>
                       ELSE Binders(pat.elems[i][1].pattern)])
      [] pat.pat = "Object" ->
            Concat([i \in DOMAIN pat.props |->
                       CASE pat.props[i].prop = "KeyValue" -> Binders(pat.props[i].value)
                         [] pat.props[i].prop = "Shorthand" -> <<pat.props[i].ident>>
                         [] pat.props[i].prop = "Rest" -> Binders(pat.props[i].arg)])
      [] OTHER -> <<>>

HasDuplicate(pat) ==
    \E i, j \in DOMAIN Binders(pat) :
        i # j /\ Binders(pat)[i].name = Binders(pat)[j].name

\* C17: for a pattern in which a name is introduced more than once, by
\* identifier patterns, shorthand properties or `is` patterns, infer_pattern
\* returns an error and no binding map.
C17_DuplicateNameIsError ==
    (PatternInferred /\ HasDuplicate(call.pat)) =>
        /\ ret # <<>>
        /\ ret[1].status = "Err"
        /\ "assump" \notin DOMAIN ret[1]

\* The mutability a binding records (Binding.mutable, or is_mut in escalier_hm).
Mutability(binding) ==
    IF "is_mut" \in DOMAIN binding THEN binding.is_mut ELSE binding.mutable

\* C18: on success the binding map holds exactly the names of the binders of
\* the pattern, and each binding is mutable exactly if its binder is written
\* with `mut`.
C18_BindingsMatchBinders ==
    PatternAccepted =>
        LET binders == Binders(call.pat)
        IN  /\ DOMAIN ret[1].assump = {binders[i].name : i \in DOMAIN binders}
            /\ \A i \in DOMAIN binders :
                   Mutability(ret[1].assump[binders[i].name]) = binders[i].mutable

RestProps(pat) == {i \in DOMAIN pat.props : pat.props[i].prop = "Rest"}

\* The name of the property a KeyValue or Shorthand property stands for.
PropKey(prop) == IF prop.prop = "KeyValue" THEN prop.key ELSE prop.ident.name

\* C19 (one rest): the type of an object pattern with exactly one rest
\* property is the intersection of the object type of its other properties
\* and the type of the rest argument.
C19_OneRestIsIntersection ==
    (/\ PatternAccepted
     /\ call.pat.pat = "Object"
     /\ Cardinality(RestProps(call.pat)) = 1) =>
        LET IsNamed(prop) == prop.prop # "Rest"
            named == SelectSeq(call.pat.props, IsNamed)
            rest == call.pat.props[CHOOSE i \in RestProps(call.pat) : TRUE]
            t == ret[1].t
        IN  /\ t.kind = "Intersection"
            /\ Len(t.types) = 2
            /\ t.types[1].kind = "Object"
            /\ [i \in DOMAIN t.types[1].elems |-> t.types[1].elems[i].name]
                   = [i \in DOMAIN named |-> PropKey(named[i])]
            /\ rest.arg.pat = "Ident" =>
                   /\ t.types[2].kind = "Var"
                   /\ ~HasDuplicate(call.pat) =>
                          t.types[2] \in {ret[1].assump[rest.arg.name][f] :
                                             f \in {"t", "index"} \cap
                                                   DOMAIN ret[1].assump[rest.arg.name]}

\* C19: as above, and for an object pattern with two or more rest properties
\* infer_pattern returns an error.
C19_ObjectRest ==
    /\ C19_OneRestIsIntersection
    /\ (/\ PatternInferred
        /\ call.pat.pat = "Object"
        /\ Cardinality(RestProps(call.pat)) >= 2) =>
           (ret # <<>> /\ ret[1].status = "Err")

\* C20: a tuple pattern that parsing and pattern inference accept has its
\* rest element, if any, in the last position (and so has one at most).
C20_TupleRestLast ==
    (PatternAccepted /\ call.pat.pat = "Tuple") =>
        \A i \in DOMAIN call.pat.elems :
            (call.pat.elems[i] # <<>> /\ call.pat.elems[i][1].pattern.pat = "Rest")
                => i = Len(call.pat.elems)

-----------------------------------------------------------------------------
(* compose_many_subs (util.rs) and self-maps of compose_subs *)

RECURSIVE apply_each(_, _)
\* t with the substitutions of subs applied one after the other, first first.
apply_each(t, subs) ==
    IF subs = <<>> THEN t ELSE apply_each(apply(t, Head(subs)), Tail(subs))

\* C24: applying compose_many_subs([s1, .., sn]) to a type gives what
\* applying s1, then s2, .., then sn gives; the empty list gives the empty
\* substitution and a list of one substitution gives that substitution.
C24_ComposeManyIsSequential ==
    (ret # <<>> /\ call.fn = "compose_many_subs") =>
        /\ apply(call.t, ret[1]) = apply_each(call.t, call.subs)
        /\ call.subs = <<>> => ret[1] = EmptyMap
        /\ Len(call.subs) = 1 => ret[1] = call.subs[1]

\* The two ends of C24, which the fold does satisfy.
C24_EmptyAndSingle ==
    (ret # <<>> /\ call.fn = "compose_many_subs") =>
        /\ call.subs = <<>> => ret[1] = EmptyMap
        /\ Len(call.subs) = 1 => ret[1] = call.subs[1]

SelfMaps(s) == {id \in DOMAIN s : s[id].kind = "Var" /\ s[id].id = id}

\* C30: for s1 and s2 without an entry id -> Var(id), compose_subs(s2, s1)
\* has no such entry.
C30_ComposeHasNoSelfMap ==
    (/\ ret # <<>>
     /\ call.fn = "compose_subs"
     /\ SelfMaps(call.s1) = {}
     /\ SelfMaps(call.s2) = {}) =>
        SelfMaps(ret[1]) = {}

-----------------------------------------------------------------------------
(* Matching of scope and report frames (checker.rs) *)

\* C29: the depth of parent_scopes (parent_reports) is the number of
\* push_scope (push_report) calls not yet popped; a pop_scope or pop_report
\* at depth zero aborts the run and leaves scope and report as they were, and
\* nothing is done after an abort.
C29_FramesMatched ==
    /\ [](/\ Len(parent_scopes) = Len(scope_marks)
          /\ Len(parent_reports) = Len(report_marks))
    /\ [][/\ ~panicked
          /\ (last_op' = "push_scope") => Len(parent_scopes') = Len(parent_scopes) + 1
          /\ (last_op' = "push_report") =>
                 Len(parent_reports') = Len(parent_reports) + 1
          /\ (last_op' = "pop_scope" /\ parent_scopes # <<>>) =>
                 (~panicked' /\ Len(parent_scopes') = Len(parent_scopes) - 1)
          /\ (last_op' = "pop_report" /\ parent_reports # <<>>) =>
                 (~panicked' /\ Len(parent_reports') = Len(parent_reports) - 1)
          /\ (last_op' = "pop_scope" /\ parent_scopes = <<>>) =>
                 (panicked' /\ current_scope' = current_scope
                            /\ parent_scopes' = parent_scopes)
          /\ (last_op' = "pop_report" /\ parent_reports = <<>>) =>
                 (panicked' /\ current_report' = current_report
                            /\ parent_reports' = parent_reports)
          /\ (last_op' \notin {"push_scope", "pop_scope"}) =>
                 Len(parent_scopes') = Len(parent_scopes)
          /\ (last_op' \notin {"push_report", "pop_report"}) =>
                 Len(parent_reports') = Len(parent_reports)]_vars

\* Two scopes were pushed and one popped; then a pop_report with no report
\* frame open aborted the run, one scope still open.
C29_Witness ==
    /\ panicked
    /\ last_op = "pop_report"
    /\ popped_mark # <<>>
    /\ Len(parent_scopes) = 1
    /\ parent_reports = <<>>

-----------------------------------------------------------------------------
(* Intersections of object types (util.rs: simplify_intersection) *)

\* Property names in the order of String's Ord; for the names used here
\* ("a" < "b" < "c" < "x" < "y") StrRank has that order.
NameLess(a, b) == StrRank(a) < StrRank(b)

RECURSIVE SortNames(_)
SortNames(S) ==
    IF S = {} THEN <<>>
    ELSE LET least == CHOOSE x \in S : \A y \in S \ {x} : NameLess(x, y)
         IN  <<least>> \o SortNames(S \ {least})

\* Faulty variant: a single type is wrapped like several.
merged_prop_type_wrapped(types) == Intersection(types)

\* The type of a merged property, given its distinct types in order.
merged_prop_type(types) ==
    IF Len(types) = 1 THEN types[1] ELSE Intersection(types)

\* Whether the loop over the elements of the object members reaches a todo!().
simplify_intersection_panics(in_types) ==
    \E i \in DOMAIN in_types :
        /\ in_types[i].kind = "Object"
        /\ \E j \in DOMAIN in_types[i].elems : in_types[i].elems[j].elem # "Prop"

simplify_intersection(in_types) ==
    LET IsObj(t) == t.kind = "Object"
        NotObj(t) == t.kind # "Object"
        obj_types == SelectSeq(in_types, IsObj)
        all_props == Concat([i \in DOMAIN obj_types |-> obj_types[i].elems])
        \* props_map: the set of types stored under each name
        names == {all_props[i].name : i \in DOMAIN all_props}
        props_map == [name \in names |->
                         {all_props[i].t : i \in {j \in DOMAIN all_props :
                                                     all_props[j].name = name}}]
        sorted == SortNames(names)
        elems == [i \in DOMAIN sorted |->
                     TProp(sorted[i], FALSE, FALSE,
                           merged_prop_type(SortTypes(props_map[sorted[i]])))]
        not_obj_types == SelectSeq(in_types, NotObj)
        out_types == IF elems # <<>>
                     THEN Append(not_obj_types, TObject(elems, FALSE))
                     ELSE not_obj_types
    IN  IF Len(out_types) = 1 THEN out_types[1] ELSE Intersection(out_types)

-----------------------------------------------------------------------------
(* Replacing type references (util.rs: replace_aliases_rec) *)

\* type_param_map without the names of type_params.
remove_type_params(type_param_map, type_params) ==
    LET own == {type_params[i].name : i \in DOMAIN type_params}
    IN  [name \in (DOMAIN type_param_map) \ own |-> type_param_map[name]]

RECURSIVE replace_aliases_rec(_, _)
replace_aliases_params(params, type_param_map) ==
    [i \in DOMAIN params |->
        [params[i] EXCEPT !.t = replace_aliases_rec(params[i].t, type_param_map)]]

replace_aliases_in_lam(lam, type_param_map) ==
    LET reduced == remove_type_params(type_param_map, lam.type_params)
    IN  [lam EXCEPT !.params = replace_aliases_params(lam.params, reduced),
                    !.ret = replace_aliases_rec(lam.ret, reduced)]

replace_aliases_elem(elem, type_param_map) ==
    CASE elem.elem \in {"Call", "Constructor"} ->
            [elem EXCEPT !.params = replace_aliases_params(elem.params, type_param_map),
                         !.ret = replace_aliases_rec(elem.ret, type_param_map)]
      [] elem.elem = "Method" ->
            \* Removes any shadowed type params.
            replace_aliases_in_lam(elem, type_param_map)
      [] elem.elem = "Getter" ->
            [elem EXCEPT !.ret = replace_aliases_rec(elem.ret, type_param_map)]
      [] OTHER -> [elem EXCEPT !.t = replace_aliases_rec(elem.t, type_param_map)]

replace_aliases_rec(t, type_param_map) ==
    LET rec(x) == replace_aliases_rec(x, type_param_map)
        each(ts) == [i \in DOMAIN ts |-> rec(ts[i])]
    IN  CASE t.kind = "Var" ->
                IF t.constraint = <<>> THEN t
                ELSE [t EXCEPT !.constraint = <<rec(t.constraint[1])>>]
          [] t.kind = "App" -> [t EXCEPT !.args = each(t.args), !.ret = rec(t.ret)]
          [] t.kind = "Lam" -> replace_aliases_in_lam(t, type_param_map)
          [] t.kind \in {"Lit", "Keyword", "This"} -> t
          [] t.kind \in {"Union", "Intersection", "Tuple"} ->
                [t EXCEPT !.types = each(t.types)]
          [] t.kind = "Object" ->
                [t EXCEPT !.elems =
                    [i \in DOMAIN t.elems |->
                        replace_aliases_elem(t.elems[i], type_param_map)]]
          [] t.kind = "Ref" ->
                IF t.name \in DOMAIN type_param_map THEN type_param_map[t.name] ELSE t
          [] t.kind = "Array" -> [t EXCEPT !.elem = rec(t.elem)]
          [] t.kind \in {"Rest", "KeyOf"} -> [t EXCEPT !.arg = rec(t.arg)]

-----------------------------------------------------------------------------
(* Calls of replace_aliases_rec and simplify_intersection *)

T == TRef("T")

U == TRef("U")

\* Signatures with one parameter, with or without the type parameter T.
Signatures ==
    {[params |-> <<TFnParam("a", p)>>, ret |-> r, type_params |-> tps] :
        p \in {T, U, Number}, r \in {T, U, Array(T)},
        tps \in {<<>>, <<TypeParam("T", <<>>)>>}}

FunctionLikes ==
    {Lam(sig.params, sig.ret, sig.type_params) : sig \in Signatures}
    \cup {TObject(<<TCallable(variant, sig.params, sig.ret, sig.type_params)>>, FALSE) :
            variant \in {"Call", "Constructor"}, sig \in Signatures}
    \cup {TObject(<<TMethodOf("m", FALSE, sig.params, sig.ret, sig.type_params)>>, FALSE) :
            sig \in Signatures}

TypeParamMaps ==
    {EmptyMap, Put(EmptyMap, "T", Number), Put(EmptyMap, "U", String),
     Put(Put(EmptyMap, "T", Number), "U", String)}

IntersectionMembers ==
    {TObject(<<TProp("x", FALSE, FALSE, Number)>>, FALSE),
     TObject(<<TProp("x", TRUE, TRUE, String)>>, FALSE),
     TObject(<<TProp("y", FALSE, FALSE, Number), TProp("x", FALSE, FALSE, Number)>>, TRUE),
     TObject(<<TProp("x", FALSE, FALSE, String), TProp("a", FALSE, TRUE, T)>>, FALSE),
     TObject(<<>>, FALSE),
     TObject(<<TProp("x", FALSE, FALSE, Number), TCall(Number)>>, FALSE),
     Number, T, TVar(1)}

InitTypes ==
    /\ Checker_default
    /\ \/ \E t \in FunctionLikes, type_param_map \in TypeParamMaps :
              call = [fn |-> "replace_aliases_rec", t |-> t,
                      type_param_map |-> type_param_map]
       \/ \E in_types \in SeqsUpTo(IntersectionMembers, MaxMembers) :
              call = [fn |-> "simplify_intersection", in_types |-> in_types]
    /\ ret = <<>>

replace_aliases_rec_call ==
    /\ call.fn = "replace_aliases_rec"
    /\ ret = <<>>
    /\ ret' = <<replace_aliases_rec(call.t, call.type_param_map)>>
    /\ UNCHANGED <<unpanicked_checker_vars, panicked, call>>

simplify_intersection_call ==
    /\ call.fn = "simplify_intersection"
    /\ ret = <<>>
    /\ ~panicked
    /\ IF simplify_intersection_panics(call.in_types)
       THEN panicked' = TRUE /\ UNCHANGED ret
       ELSE ret' = <<simplify_intersection(call.in_types)>> /\ UNCHANGED panicked
    /\ UNCHANGED <<unpanicked_checker_vars, call>>

NextTypes == replace_aliases_rec_call \/ simplify_intersection_call

SpecTypes == InitTypes /\ [][NextTypes]_vars

\* The function-like type of an input or result: the lambda itself, or the
\* only element of the object.
FunctionLike(t) == IF t.kind = "Lam" THEN t ELSE t.elems[1]

\* The names referred to in the parameters and the return type.
SignatureRefs(f) ==
    UNION {RefNames(f.params[i].t) : i \in DOMAIN f.params} \cup RefNames(f.ret)

\* C26: inside a lambda, method, call signature or constructor signature that
\* declares a type parameter, replace_aliases_rec leaves the references to
\* that name as they are, and replaces the references to the other names of
\* type_param_map (whose types here hold no reference).
C26_ShadowedNamesUntouched ==
    (call.fn = "replace_aliases_rec" /\ ret # <<>>) =>
        LET fin == FunctionLike(call.t)
            fout == FunctionLike(ret[1])
            own == TypeParamNames(fin)
        IN  /\ SignatureRefs(fin) \cap own \subseteq SignatureRefs(fout)
            /\ SignatureRefs(fout) \cap ((DOMAIN call.type_param_map) \ own) = {}

\* C26 holds of lambdas and methods.
C26_LamAndMethod ==
    (call.fn = "replace_aliases_rec" /\ ret # <<>>
        /\ (call.t.kind = "Lam" \/ call.t.elems[1].elem = "Method")) =>
        LET fin == FunctionLike(call.t)
            fout == FunctionLike(ret[1])
            own == TypeParamNames(fin)
        IN  /\ SignatureRefs(fin) \cap own \subseteq SignatureRefs(fout)
            /\ SignatureRefs(fout) \cap ((DOMAIN call.type_param_map) \ own) = {}

SimplifyReturned == call.fn = "simplify_intersection" /\ ret # <<>>

\* The properties of the object members of the input.
MemberProps ==
    UNION {Range(call.in_types[i].elems) :
              i \in {j \in DOMAIN call.in_types : call.in_types[j].kind = "Object"}}

\* The members of the result: those of the intersection, or the bare type.
SimplifiedMembers ==
    IF ret[1].kind = "Intersection" THEN ret[1].types ELSE <<ret[1]>>

NotObject(t) == t.kind # "Object"

\* C28: the object type simplify_intersection produces has one property per
\* property name of the object members of the input, sorted by name, whose
\* type is the name's single type or the intersection of its distinct types;
\* the other members are kept and come before the object; a result with one
\* member is that member.
C28_SimplifyIntersection ==
    SimplifyReturned =>
        LET members == SimplifiedMembers
            others == SelectSeq(call.in_types, NotObject)
            names == {p.name : p \in MemberProps}
            TypesOf(name) == {p.t : p \in {q \in MemberProps : q.name = name}}
        IN  /\ SubSeq(members, 1, Len(others)) = others
            /\ Len(members) = Len(others) + (IF names = {} THEN 0 ELSE 1)
            /\ (ret[1].kind = "Intersection") = (Len(members) # 1)
            /\ names # {} =>
                   LET obj == Last(members)
                   IN  /\ obj.kind = "Object"
                       /\ Len(obj.elems) = Cardinality(names)
                       /\ \A i \in DOMAIN obj.elems :
                              /\ obj.elems[i].elem = "Prop"
                              /\ obj.elems[i].name \in names
                              /\ i > 1 => NameLess(obj.elems[i - 1].name,
                                                   obj.elems[i].name)
                              /\ LET ts == TypesOf(obj.elems[i].name)
                                     t == obj.elems[i].t
                                 IN  IF Cardinality(ts) = 1 THEN t \in ts
                                     ELSE /\ t.kind = "Intersection"
                                          /\ Range(t.types) = ts
                                          /\ Len(t.types) = Cardinality(ts)

\* Two object members with a common property name of two types are merged
\* into one object of three properties.
C28_Witness ==
    /\ SimplifyReturned
    /\ Len(call.in_types) = 2
    /\ ret[1].kind = "Object"
    /\ Len(ret[1].elems) = 3
    /\ \E i \in DOMAIN ret[1].elems : ret[1].elems[i].t.kind = "Intersection"

-----------------------------------------------------------------------------
(* `mut` on shorthand properties *)

\* x, y, mut x
ShorthandInputs == {<<X>>, <<Y>>, <<Tok("Mut"), X>>}

ShorthandObject(ps) == <<Tok("LeftBrace")>> \o Join(ps) \o <<Tok("RightBrace")>>

\* parse_pattern has run to its end on call.input: it returned or it panicked.
PatternParsed == call.fn = "parse_pattern" /\ (ret # <<>> \/ panicked)

\* The object pattern made of the shorthand properties ps was returned, with
\* mutable = true on the binders written with `mut` and on no other.
ShorthandsParsed(ps) ==
    /\ ret # <<>>
    /\ ret[1].pat.pat = "Object"
    /\ Len(ret[1].pat.props) = Len(ps)
    /\ \A i \in DOMAIN ps :
           ret[1].pat.props[i] =
               ShorthandPatProp(BindingIdent(Last(ps[i]).name, Head(ps[i]) = Tok("Mut")))

\* C27: parse_pattern accepts an object pattern of shorthand properties with
\* `mut` on the first, a middle or the last of them, records mutable = true on
\* exactly those binders, and parses the properties after a `mut` property.
C27_MutShorthandAnywhere ==
    PatternParsed =>
        \A ps \in SeqsUpTo(ShorthandInputs, MaxPatElems) :
            call.input = ShorthandObject(ps) => ShorthandsParsed(ps)

\* C27 holds when `mut` is on the last property only.
C27_MutShorthandLast ==
    PatternParsed =>
        \A ps \in SeqsUpTo(ShorthandInputs, MaxPatElems) :
            (/\ call.input = ShorthandObject(ps)
             /\ \A i \in 1..(Len(ps) - 1) : Head(ps[i]) # Tok("Mut"))
                => ShorthandsParsed(ps)

-----------------------------------------------------------------------------
(* Function parameters (escalier_old_infer/src/infer_fn_param.rs) *)

\* EFnParam { pat, type_ann, optional }
EFnParam(pat, type_ann, optional) ==
    [pat |-> pat, type_ann |-> type_ann, optional |-> optional]

\* pa after `if param.optional { .. }`: the binding that find() returns, one
\* whose type equals pt, is replaced by the binding of type `T | undefined`.
\* (No pattern gives two bindings the type of the whole pattern.)
widen_optional(pa, pt) ==
    LET found == {name \in DOMAIN pa : pa[name].t = pt}
    IN  IF found = {} THEN pa
        ELSE LET name == CHOOSE n \in found : TRUE
             IN  Put(pa, name, Binding(Union(<<pa[name].t, Undefined>>),
                                       pa[name].mutable))

RECURSIVE insert_bindings(_, _)
\* for (name, binding) in pa { self.insert_binding(name, binding); }
insert_bindings(scope, pa) ==
    IF DOMAIN pa = {} THEN scope
    ELSE LET name == CHOOSE n \in DOMAIN pa : TRUE
         IN  insert_bindings(Scope_insert_binding(scope, name, pa[name]),
                             [n \in (DOMAIN pa) \ {name} |-> pa[n]])

\* Checker::infer_fn_param on a checker whose current scope is scope and
\* whose counter of fresh variables is id.
infer_fn_param(param, scope, id) ==
    LET p == infer_pattern(param.pat, param.type_ann, id)
    IN  IF p.status # "Ok" THEN p
        ELSE LET pt == IF p.t.kind = "Rest" THEN Array(p.t.arg) ELSE p.t
                 pa == IF param.optional THEN widen_optional(p.assump, pt)
                       ELSE p.assump
             IN  [status |-> "Ok", s |-> p.s,
                  param |-> [pat |-> param.pat, t |-> pt, optional |-> param.optional],
                  scope |-> insert_bindings(scope, pa), next_id |-> p.next_id]

-----------------------------------------------------------------------------
(* Calls of infer_pattern with an annotation, infer_pattern_and_init and     *)
(* infer_fn_param                                                            *)

ShorthandOf(name) == ShorthandPatProp(BindingIdent(name, FALSE))

\* x, mut x, _, 5, {x}, {x, y}, {x: mut y}, [x, y], ...x, {x, x}
InferPats ==
    {IdentPat("x", FALSE), IdentPat("x", TRUE), WildcardPat, LitPat(Lit("Num", "5")),
     ObjectPat(<<ShorthandOf("x")>>),
     ObjectPat(<<ShorthandOf("x"), ShorthandOf("y")>>),
     ObjectPat(<<KeyValuePatProp("x", IdentPat("y", TRUE))>>),
     TuplePat(<<<<TuplePatElem(IdentPat("x", FALSE))>>,
                <<TuplePatElem(IdentPat("y", TRUE))>>>>),
     RestPat(IdentPat("x", FALSE)),
     ObjectPat(<<ShorthandOf("x"), ShorthandOf("x")>>)}

PropOf(name, t) == TProp(name, FALSE, FALSE, t)

\* number, 5, {}, {x: number}, {y: string}, {x: number, y: string},
\* [number, string]
InferTypes ==
    {Number, Lit("Num", "5"), TObject(<<>>, FALSE),
     TObject(<<PropOf("x", Number)>>, FALSE),
     TObject(<<PropOf("y", String)>>, FALSE),
     TObject(<<PropOf("x", Number), PropOf("y", String)>>, FALSE),
     Tuple(<<Number, String>>)}

TypeAnns == {<<>>} \cup {<<t>> : t \in InferTypes}

Exprs == {[expr |-> "Value", t |-> t] : t \in InferTypes} \cup {[expr |-> "Call"]}

InitInfer ==
    /\ Checker_default
    /\ \/ \E pat \in InferPats, type_ann \in TypeAnns \ {<<>>} :
              call = [fn |-> "infer_pattern", pat |-> pat, type_ann |-> type_ann,
                      scope |-> ScopeDefault]
       \/ \E pat \in InferPats, init \in Exprs, pu \in {"Assign", "Match"} :
              call = [fn |-> "infer_pattern_and_init", pat |-> pat, type_ann |-> <<>>,
                      init |-> init, pu |-> pu, scope |-> ScopeDefault]
       \/ \E pat \in InferPats, type_ann \in TypeAnns, optional \in BOOLEAN :
              call = [fn |-> "infer_fn_param",
                      param |-> EFnParam(pat, type_ann, optional),
                      pat |-> pat, type_ann |-> type_ann, scope |-> ScopeDefault]
    /\ ret = <<>>

inference_vars ==
    <<parent_scopes, diagnostics, current_report, parent_reports, steps, last_op,
      issued, scope_marks, popped_mark, applied, popped_applied, report_marks,
      popped_report, call>>

\* The call ends with result; call.scope is the current scope on entry.
returns(fn, result) ==
    /\ call.fn = fn
    /\ ret = <<>>
    /\ ~panicked
    /\ IF result.status = "Panic"
       THEN panicked' = TRUE /\ UNCHANGED <<ret, next_id, current_scope>>
       ELSE /\ ret' = <<result>>
            /\ next_id' = result.next_id
            /\ current_scope' = IF "scope" \in DOMAIN result THEN result.scope
                                ELSE call.scope
            /\ UNCHANGED panicked
    /\ UNCHANGED inference_vars

infer_pattern_type_ann_call ==
    returns("infer_pattern", infer_pattern(call.pat, call.type_ann, next_id))

infer_pattern_and_init_call ==
    returns("infer_pattern_and_init",
            infer_pattern_and_init(call.pat, call.type_ann, call.init, call.pu, next_id))

infer_fn_param_call ==
    returns("infer_fn_param", infer_fn_param(call.param, call.scope, next_id))

NextInfer ==
    \/ infer_pattern_type_ann_call
    \/ infer_pattern_and_init_call
    \/ infer_fn_param_call

SpecInfer == InitInfer /\ [][NextInfer]_vars

RECURSIVE Fits(_, _)
\* a is a subtype of b, a type variable standing for any type: equal types, a
\* literal under its primitive, an object with every property of b, tuples
\* of the same length element by element.
Fits(a, b) ==
    \/ a = b
    \/ a.kind = "Var"
    \/ b.kind = "Var"
    \/ a.kind = "Lit" /\ b.kind = "Keyword" /\ lit_keyword(a) = b
    \/ /\ a.kind = "Object" /\ b.kind = "Object"
       /\ \A j \in DOMAIN b.elems :
              \E i \in DOMAIN a.elems :
                  /\ a.elems[i].name = b.elems[j].name
                  /\ Fits(a.elems[i].t, b.elems[j].t)
    \/ /\ a.kind = "Tuple" /\ b.kind = "Tuple"
       /\ Len(a.types) = Len(b.types)
       /\ \A i \in DOMAIN a.types : Fits(a.types[i], b.types[i])

\* The type and the bindings of the pattern of the call, before any
\* annotation or initializer is looked at (the counter of a new checker is 1).
BarePattern == infer_pattern_rec(call.pat, PatState(EmptyMap, 1))

RECURSIVE Refutable(_)
\* A pattern that a value may fail to match: it holds a literal or an `is`.
Refutable(pat) ==
    CASE pat.pat \in {"Lit", "Is"} -> TRUE
      [] pat.pat = "Rest" -> Refutable(pat.arg)
      [] pat.pat = "Tuple" ->
            \E i \in DOMAIN pat.elems :
                pat.elems[i] # <<>> /\ Refutable(pat.elems[i][1].pattern)
      [] pat.pat = "Object" ->
            \E i \in DOMAIN pat.props :
                \/ pat.props[i].prop = "KeyValue" /\ Refutable(pat.props[i].value)
                \/ pat.props[i].prop = "Rest" /\ Refutable(pat.props[i].arg)
      [] OTHER -> FALSE

\* infer_pattern has returned for a non-refutable pattern with an annotation.
AnnotatedReturned ==
    call.fn = "infer_pattern" /\ ret # <<>> /\ ~Refutable(call.pat)

\* C21 as claimed: a non-refutable pattern with a type annotation is accepted
\* when the pattern's type is a subtype of the annotation's type, the
\* annotation being the upper bound, and only then.
C21_AnnotationIsUpperBound ==
    (AnnotatedReturned /\ BarePattern.status = "Ok") =>
        (ret[1].status = "Ok" <=> Fits(BarePattern.t, call.type_ann[1]))

\* C21: a non-refutable pattern with a type annotation is accepted when the
\* annotation's type is a subtype of the pattern's type, and only then:
\* infer_pattern gives
\* unify the annotation's type on the subtype side and the pattern's type on
\* the supertype side. The type returned is the annotation's.
C21_AnnotationIsSubtype ==
    (AnnotatedReturned /\ BarePattern.status = "Ok") =>
        /\ ret[1].status = "Ok" <=> Fits(call.type_ann[1], BarePattern.t)
        /\ ret[1].status = "Ok" => ret[1].t = call.type_ann[1]

\* The pattern {x} is accepted with the annotation {x: number, y: string},
\* which has a property the pattern's type has not; x is a number.
C21_Witness ==
    /\ AnnotatedReturned
    /\ ret[1].status = "Ok"
    /\ call.pat = ObjectPat(<<ShorthandOf("x")>>)
    /\ Len(call.type_ann[1].elems) = 2
    /\ ret[1].assump["x"].t = Number

InitReturned == call.fn = "infer_pattern_and_init" /\ ret # <<>>

\* The type of the initializer, inferred after the pattern.
InitType ==
    IF call.init.expr = "Call" THEN TVar(BarePattern.next_id) ELSE call.init.t

\* C22: infer_pattern_and_init accepts a Match when the pattern's type is a
\* subtype of the type matched and an Assign when the init's type is a subtype
\* of the pattern's type; the variables of the pattern are numbered before
\* those of the initializer; the bindings returned are the pattern's with the
\* substitution returned applied to them.
C22_PatternAndInit ==
    (InitReturned /\ BarePattern.status = "Ok") =>
        /\ ret[1].status = "Ok" <=>
               IF call.pu = "Match" THEN Fits(BarePattern.t, InitType)
               ELSE Fits(InitType, BarePattern.t)
        /\ ret[1].status = "Ok" =>
               /\ DOMAIN ret[1].assump = DOMAIN BarePattern.assump
               /\ \A name \in DOMAIN ret[1].assump :
                      /\ ret[1].assump[name].t =
                             apply(BarePattern.assump[name].t, ret[1].s)
                      /\ ftv_ids(ret[1].assump[name].t) \cap DOMAIN ret[1].s = {}
               /\ call.init.expr = "Call" =>
                      \A id \in ftv_ids(BarePattern.t) : id < InitType.id

\* A literal pattern is matched against a number, and an object with two
\* properties is assigned to a pattern with one.
C22_Witness ==
    /\ InitReturned
    /\ ret[1].status = "Ok"
    /\ \/ call.pu = "Match" /\ call.pat.pat = "Lit" /\ call.init = [expr |-> "Value", t |-> Number]
       \/ /\ call.pu = "Assign"
          /\ call.pat = ObjectPat(<<ShorthandOf("x")>>)
          /\ call.init.expr = "Value"
          /\ call.init.t.kind = "Object"
          /\ Len(call.init.t.elems) = 2
          /\ ret[1].assump["x"].t = Number

FnParamReturned == call.fn = "infer_fn_param" /\ ret # <<>> /\ ret[1].status = "Ok"

\* The bindings and the type of the parameter's pattern before any widening.
ParamPattern == infer_pattern(call.pat, call.type_ann, 1)

\* C23: for an optional parameter every binding of the pattern is in the
\* context with its type B widened to B | undefined and its mutability
\* unchanged; the TFnParam returned has the type of the pattern, not widened,
\* and optional = true.
C23_OptionalWidensEveryBinding ==
    (FnParamReturned /\ call.param.optional) =>
        /\ \A name \in DOMAIN ParamPattern.assump :
               /\ name \in DOMAIN current_scope.values
               /\ current_scope.values[name] =
                      Binding(Union(<<ParamPattern.assump[name].t, Undefined>>),
                              ParamPattern.assump[name].mutable)
        /\ ret[1].param.optional
        /\ ret[1].param.t = (IF ParamPattern.t.kind = "Rest"
                             THEN Array(ParamPattern.t.arg) ELSE ParamPattern.t)

\* C23 holds of identifier patterns.
C23_OptionalIdent ==
    (FnParamReturned /\ call.param.optional /\ call.pat.pat = "Ident") =>
        /\ current_scope.values[call.pat.name] =
               Binding(Union(<<ParamPattern.assump[call.pat.name].t, Undefined>>),
                       call.pat.mutable)
        /\ ret[1].param.optional
        /\ ret[1].param.t = ParamPattern.t

\* C25: after infer_fn_param has returned, with a parameter or with an error,
\* the current scope holds the bindings it held before the call and no other.
C25_ScopeLeftToCaller ==
    (call.fn = "infer_fn_param" /\ ret # <<>>) =>
        current_scope.values = call.scope.values

\* C25 holds of the calls that return an error and of the patterns that
\* introduce no variable.
C25_NothingToInsert ==
    (call.fn = "infer_fn_param" /\ ret # <<>>
        /\ (ret[1].status = "Err" \/ DOMAIN ParamPattern.assump = {})) =>
        current_scope.values = call.scope.values

====
